---- MODULE Spec2Model ----
(***************************************************************************)
(* A model of the HTML reporter of coverage.py (coverage/html.py): the     *)
(* incremental cache (IncrementalChecker), the per-file step html_file,    *)
(* the report pass, and the package tree (build, sum, merge, list).        *)
(*                                                                         *)
(* Representation choices.                                                 *)
(*  - A relative file name "a/b/m.py" is the sequence of its segments      *)
(*    <<"a","b","m.py">>; splitting on os.path.sep gives the one-segment   *)
(*    names, joining with os.path.sep is concatenation.                    *)
(*  - A hex digest is the tuple <<"h">> \o (what was fed to the hasher):   *)
(*    a collision-free digest that is never the empty string << >>.        *)
(*  - A source text is identified by a number, which is also the number of *)
(*    statements it holds; the coverage data of a file is the number of    *)
(*    its statements that were executed.                                   *)
(***************************************************************************)
EXTENDS Integers, Sequences, FiniteSets, TLC

\* ---------------------------------------------------------------- bounds
\* The largest number of statements of a source text.
MaxStmts == 1
\* The deepest directory nesting of the paths given to the package tree.
MaxDepth == 3
\* The largest number of files given to the package tree.
MaxTreeFiles == 3

\* ------------------------------------------------------- program constants
STATUS_FORMAT == 2
\* coverage.__version__ of the running tool.
VERSION == "this"
\* The content of the pyfile.html template, hashed into the global fingerprint.
pyfile_html_source == "pyfile.html"

\* ------------------------------------------------------------ small helpers
Put(f, k, v) == [x \in DOMAIN f \cup {k} |-> IF x = k THEN v ELSE f[x]]
EmptyMap == << >>

\* ------------------------------------------------------------------ Numbers
\* coverage.results.Numbers: a tuple of counters.
Numbers(nf, st, mi, br, pb) ==
    [n_files |-> nf, n_statements |-> st, n_missing |-> mi,
     n_branches |-> br, n_partial_branches |-> pb]
\* Numbers(): what _new_branch and __init__ start from.
NumbersZero == Numbers(0, 0, 0, 0, 0)
\* Numbers.__add__: counter-wise addition.
NumbersAdd(a, b) ==
    Numbers(a.n_files + b.n_files, a.n_statements + b.n_statements,
            a.n_missing + b.n_missing, a.n_branches + b.n_branches,
            a.n_partial_branches + b.n_partial_branches)
\* Numbers.init_args(): the fixed-order list stored in status.json.
init_args(n) ==
    <<n.n_files, n.n_statements, n.n_missing, n.n_branches, n.n_partial_branches>>
\* Numbers(*args): rebuilding the Numbers from the stored list.
NumbersFromArgs(a) == Numbers(a[1], a[2], a[3], a[4], a[5])
\* sum(list of Numbers), as in sum(self.all_files_nums).
RECURSIVE SumSeq(_)
SumSeq(s) == IF s = << >> THEN NumbersZero ELSE NumbersAdd(Head(s), SumSeq(Tail(s)))
\* Numbers.pc_covered compared with zero statements: report's return value is
\* the pair (covered, statements); 0 statements gives the falsy 0.
ReportValue(t) ==
    IF t.n_statements = 0 THEN <<0, 0>>
    ELSE <<t.n_statements - t.n_missing, t.n_statements>>

\* -------------------------------------------------- the files being measured
\* The two measured files of the report runs, in the order the analyses are
\* yielded (get_analysis_to_report sorts the file reporters).
RunFiles == << <<"a", "b", "m">>, <<"t">> >>
Files == 1..Len(RunFiles)
relative_filename(f) == RunFiles[f]
\* flat_rootname: directory separators become "_"; the segments of the modelled
\* files hold no "_", so the flat name determines the segments and is carried
\* as them.
flat_rootname(rel) == <<"flat">> \o rel
html_filename_of(rootname) == rootname \o <<".html">>

\* The states a measured file can be in: its source text and its coverage data.
FileStates ==
    UNION { { [text |-> s, executed |-> e] : e \in 0..s } : s \in 0..MaxStmts }
\* analysis.numbers for a file in state st.
analysis_numbers(st) == Numbers(1, st.text, st.text - st.executed, 0, 0)

\* ------------------------------------------------------------ configuration
\* The report options the model varies; html_skip_* are "None" when unset.
Config(hsc, sc, hse, se, ctx) ==
    [html_skip_covered |-> hsc, skip_covered |-> sc,
     html_skip_empty |-> hse, skip_empty |-> se, show_contexts |-> ctx]
Configs ==
    { Config("None", FALSE, "None", FALSE, FALSE),
      Config("None", FALSE, "None", FALSE, TRUE),
      Config("None", TRUE, "None", FALSE, FALSE),
      Config("None", FALSE, "True", FALSE, FALSE) }
\* HtmlReporter.__init__: the html-specific option wins unless it is None.
skip_covered(c) ==
    IF c.html_skip_covered = "None" THEN c.skip_covered ELSE c.html_skip_covered = "True"
skip_empty(c) ==
    IF c.html_skip_empty = "None" THEN c.skip_empty ELSE c.html_skip_empty = "True"

\* ------------------------------------------------------------------ hashing
\* Hasher.hexdigest over what was fed with update().
hexdigest(parts) == <<"h">> \o parts
\* The hash of can_skip_file: the source text and the file's coverage data.
this_hash_of(st) == hexdigest(<<st.text, st.executed>>)
\* The hash of check_global_data(config, pyfile_html_source).
these_globals_of(c) == hexdigest(<<c, pyfile_html_source>>)

\* ------------------------------------------------------------ package tree
\* A tree node is [nums, html_filename, relative_filename, is_package,
\* children], children being a function from segment names to nodes.
\* A _new_branch that does not mark the node as a package.
new_branch_as_module(rel_filename) ==
    [nums |-> NumbersZero, html_filename |-> << >>, relative_filename |-> rel_filename,
     is_package |-> FALSE, children |-> EmptyMap]
\* HtmlReporter._new_branch
new_branch(rel_filename) ==
    [nums |-> NumbersZero, html_filename |-> << >>, relative_filename |-> rel_filename,
     is_package |-> TRUE, children |-> EmptyMap]

\* An _add_module_to_branch that makes the branch anew even when the parent
\* already has one of that name.
RECURSIVE add_module_to_branch_anew(_, _, _)
add_module_to_branch_anew(parent, tree_path, tree_info) ==
    LET r == Head(tree_path)
        tree_depth == Len(tree_path)
        branch == IF tree_depth = 1
                  THEN [tree_info EXCEPT !.relative_filename = <<r>>]
                  ELSE new_branch(<<r>>)
    IN [parent EXCEPT !.children =
           Put(@, r, IF tree_depth > 1
                     THEN add_module_to_branch_anew(branch, Tail(tree_path), tree_info)
                     ELSE branch)]

\* HtmlReporter._add_module_to_branch: returns the parent with the module added.
RECURSIVE add_module_to_branch(_, _, _)
add_module_to_branch(parent, tree_path, tree_info) ==
    LET r == Head(tree_path)
        tree_depth == Len(tree_path)
        branch == IF r \in DOMAIN parent.children THEN parent.children[r]
                  ELSE IF tree_depth = 1
                       THEN [tree_info EXCEPT !.relative_filename = <<r>>]
                       ELSE new_branch(<<r>>)
    IN [parent EXCEPT !.children =
           Put(@, r, IF tree_depth > 1
                     THEN add_module_to_branch(branch, Tail(tree_path), tree_info)
                     ELSE branch)]

\* HtmlReporter.add_module_to_tree: returns the package tree with the module added.
add_module_to_tree(tree, index_info) ==
    LET tree_info == [nums |-> index_info.nums,
                      html_filename |-> index_info.html_filename,
                      relative_filename |-> index_info.relative_filename,
                      is_package |-> FALSE, children |-> EmptyMap]
        tree_path == tree_info.relative_filename
        r == Head(tree_path)
        tree_depth == Len(tree_path)
        branch == IF r \in DOMAIN tree THEN tree[r]
                  ELSE IF tree_depth = 1 THEN tree_info ELSE new_branch(<<r>>)
    IN Put(tree, r, IF tree_depth > 1
                    THEN add_module_to_branch(branch, Tail(tree_path), tree_info)
                    ELSE branch)

\* The node of the (unmerged) tree reached by following the segments of path.
RECURSIVE NodeBelow(_, _)
NodeBelow(node, path) ==
    IF path = << >> THEN node ELSE NodeBelow(node.children[Head(path)], Tail(path))
RECURSIVE HasNodeBelow(_, _)
HasNodeBelow(node, path) ==
    \/ path = << >>
    \/ /\ Head(path) \in DOMAIN node.children
       /\ HasNodeBelow(node.children[Head(path)], Tail(path))
HasNode(tree, path) == Head(path) \in DOMAIN tree /\ HasNodeBelow(tree[Head(path)], Tail(path))
NodeAt(tree, path) == NodeBelow(tree[Head(path)], Tail(path))

\* The caller's dictionary seen through the node the tree holds for it, as
\* it would be had the tree taken the dictionary itself.
index_info_aliased(index_info, tree_info) ==
    [nums |-> tree_info.nums, html_filename |-> tree_info.html_filename,
     relative_filename |-> tree_info.relative_filename]
\* add_module_to_tree, tree_info = index_info.copy(): what the caller's
\* index_info holds when add_module_to_tree has returned, tree_info being the
\* node the tree then has for the file.  The assignments to is_package,
\* children and relative_filename land on the copy.
caller_index_info(index_info, tree_info) == index_info

\* sum(nums) over the values of a children mapping.
RECURSIVE SumChildren(_)
SumChildren(kids) ==
    IF DOMAIN kids = {} THEN NumbersZero
    ELSE LET k == CHOOSE x \in DOMAIN kids : TRUE
         IN NumbersAdd(kids[k].nums,
                       SumChildren([x \in DOMAIN kids \ {k} |-> kids[x]]))

\* A _sum_branch that adds up its children as they are, without summing the
\* folders among them first.
sum_branch_shallow(tree_info) ==
    [tree_info EXCEPT !.nums = SumChildren(tree_info.children)]

\* HtmlReporter._sum_branch
RECURSIVE sum_branch(_)
sum_branch(tree_info) ==
    LET kids == [k \in DOMAIN tree_info.children |->
                    IF Cardinality(DOMAIN tree_info.children[k].children) > 0
                    THEN sum_branch(tree_info.children[k])
                    ELSE tree_info.children[k]]
    IN [tree_info EXCEPT !.children = kids, !.nums = SumChildren(kids)]

\* HtmlReporter.sum_package_tree
sum_package_tree(tree) ==
    [r \in DOMAIN tree |->
        IF Cardinality(DOMAIN tree[r].children) > 0 THEN sum_branch(tree[r]) ELSE tree[r]]

\* A merge that joins a folder with its only child before the child's own
\* folders have been merged.
RECURSIVE merge_branch_folders_top_first(_)
merge_branch_folders_top_first(tree_info) ==
    LET joined ==
          IF Cardinality(DOMAIN tree_info.children) = 1
          THEN LET child_info ==
                     tree_info.children[CHOOSE k \in DOMAIN tree_info.children : TRUE]
               IN IF DOMAIN child_info.children # {}
                  THEN [tree_info EXCEPT
                          !.children = child_info.children,
                          !.relative_filename = @ \o child_info.relative_filename]
                  ELSE tree_info
          ELSE tree_info
    IN [joined EXCEPT !.children =
           [k \in DOMAIN joined.children |->
               merge_branch_folders_top_first(joined.children[k])]]

\* A merge that also joins a folder with an only child that is a file.
RECURSIVE merge_branch_folders_into_leaf(_)
merge_branch_folders_into_leaf(tree_info) ==
    LET kids == [k \in DOMAIN tree_info.children |->
                    merge_branch_folders_into_leaf(tree_info.children[k])]
        merged == [tree_info EXCEPT !.children = kids]
    IN IF Cardinality(DOMAIN kids) = 1
       THEN LET child_info == kids[CHOOSE k \in DOMAIN kids : TRUE]
            IN [merged EXCEPT
                  !.children = child_info.children,
                  !.relative_filename = @ \o child_info.relative_filename]
       ELSE merged

\* HtmlReporter._merge_branch_folders
RECURSIVE merge_branch_folders(_)
merge_branch_folders(tree_info) ==
    LET kids == [k \in DOMAIN tree_info.children |->
                    merge_branch_folders(tree_info.children[k])]
        merged == [tree_info EXCEPT !.children = kids]
    IN IF Cardinality(DOMAIN kids) = 1
       THEN LET child_info == kids[CHOOSE k \in DOMAIN kids : TRUE]
            IN IF DOMAIN child_info.children # {}
               THEN [merged EXCEPT
                       !.children = child_info.children,
                       !.relative_filename = @ \o child_info.relative_filename]
               ELSE merged
       ELSE merged

\* HtmlReporter.merge_single_folders
merge_single_folders(tree) == [r \in DOMAIN tree |-> merge_branch_folders(tree[r])]

\* ------------------------------------------------------- incremental cache
\* The '' that file_hash gives for a file with no stored hash, and the
\* globals of a reset checker.
NoHash == << >>

\* What status.json can hold.  kind: "missing" (open fails), "garbled" (not
\* JSON), "nondict" (JSON, but a list, string or number), "dict" (a JSON
\* object holding the keys named in keys).
StatusRecord(kind, keys, format, version, globals, files) ==
    [kind |-> kind, keys |-> keys, format |-> format, version |-> version,
     globals |-> globals, files |-> files]
NoStatusFile == StatusRecord("missing", {}, 0, "", NoHash, EmptyMap)
AllKeys == {"format", "version", "globals", "files"}

\* IncrementalChecker.reset
reset == [globals |-> NoHash, files |-> EmptyMap]

\* The loop of read: every stored nums list becomes a Numbers again.
LoadFiles(stored) ==
    [k \in DOMAIN stored |->
        [stored[k] EXCEPT !.index.nums = NumbersFromArgs(@)]]

\* A read that does not look at the version of the record.
readAnyVersion(status) ==
    IF status.kind \in {"missing", "garbled"}
    THEN [err |-> "", globals |-> reset.globals, files |-> reset.files]
    ELSE IF status.kind # "dict"
    THEN [err |-> "TypeError", globals |-> reset.globals, files |-> reset.files]
    ELSE IF "format" \notin status.keys
    THEN [err |-> "KeyError", globals |-> reset.globals, files |-> reset.files]
    ELSE IF status.format # STATUS_FORMAT
    THEN [err |-> "", globals |-> reset.globals, files |-> reset.files]
    ELSE IF "files" \notin status.keys
    THEN [err |-> "KeyError", globals |-> reset.globals, files |-> EmptyMap]
    ELSE IF "globals" \notin status.keys
    THEN [err |-> "KeyError", globals |-> reset.globals,
          files |-> LoadFiles(status.files)]
    ELSE [err |-> "", globals |-> status.globals, files |-> LoadFiles(status.files)]

\* IncrementalChecker.read on a freshly constructed checker: the exception it
\* ends with ("" when it returns) and the globals and files it leaves.
read(status) ==
    IF status.kind \in {"missing", "garbled"}
    THEN [err |-> "", globals |-> reset.globals, files |-> reset.files]
    ELSE IF status.kind # "dict"
    THEN [err |-> "TypeError", globals |-> reset.globals, files |-> reset.files]
    ELSE IF "format" \notin status.keys
    THEN [err |-> "KeyError", globals |-> reset.globals, files |-> reset.files]
    ELSE IF status.format # STATUS_FORMAT
    THEN [err |-> "", globals |-> reset.globals, files |-> reset.files]
    ELSE IF "version" \notin status.keys
    THEN [err |-> "KeyError", globals |-> reset.globals, files |-> reset.files]
    ELSE IF status.version # VERSION
    THEN [err |-> "", globals |-> reset.globals, files |-> reset.files]
    ELSE IF "files" \notin status.keys
    THEN [err |-> "KeyError", globals |-> reset.globals, files |-> EmptyMap]
    ELSE IF "globals" \notin status.keys
    THEN [err |-> "KeyError", globals |-> reset.globals,
          files |-> LoadFiles(status.files)]
    ELSE [err |-> "", globals |-> status.globals, files |-> LoadFiles(status.files)]

\* A check that takes the new globals and keeps the files.
check_global_data_keeping(incr, these_globals) ==
    [globals |-> these_globals, files |-> incr.files]

\* IncrementalChecker.check_global_data
check_global_data(incr, these_globals) ==
    IF incr.globals # these_globals
    THEN [globals |-> these_globals, files |-> reset.files]
    ELSE incr

\* IncrementalChecker.file_hash
file_hash(files, fname) ==
    IF fname \in DOMAIN files THEN files[fname].hash ELSE NoHash

\* IncrementalChecker.index_info ({} when nothing is stored)
NoIndexInfo == [nums |-> NumbersZero, html_filename |-> << >>, relative_filename |-> << >>]
index_info(files, fname) ==
    IF fname \in DOMAIN files THEN files[fname].index ELSE NoIndexInfo

\* IncrementalChecker.set_file_hash
set_file_hash(files, fname, val) ==
    IF fname \in DOMAIN files
    THEN [files EXCEPT ![fname].hash = val]
    ELSE Put(files, fname, [hash |-> val, index |-> NoIndexInfo])

\* A set_index_info that leaves the summary of a file already in the cache.
set_index_info_once(files, fname, info) ==
    IF fname \in DOMAIN files /\ files[fname].index # NoIndexInfo
    THEN files
    ELSE IF fname \in DOMAIN files
    THEN [files EXCEPT ![fname].index = info]
    ELSE Put(files, fname, [hash |-> NoHash, index |-> info])

\* IncrementalChecker.set_index_info
set_index_info(files, fname, info) ==
    IF fname \in DOMAIN files
    THEN [files EXCEPT ![fname].index = info]
    ELSE Put(files, fname, [hash |-> NoHash, index |-> info])

\* A can_skip_file that compares and stores nothing.
can_skip_file_not_storing(files, this_hash, rootname) ==
    [skip |-> this_hash = file_hash(files, rootname), files |-> files]

\* IncrementalChecker.can_skip_file: the value returned and the files left.
can_skip_file(files, this_hash, rootname) ==
    LET that_hash == file_hash(files, rootname)
    IN IF this_hash = that_hash
       THEN [skip |-> TRUE, files |-> files]
       ELSE [skip |-> FALSE, files |-> set_file_hash(files, rootname, this_hash)]

\* The files mapping as IncrementalChecker.write leaves it, in memory and in
\* status.json: every nums replaced by its init_args list.
WrittenFiles(files) ==
    [k \in DOMAIN files |-> [files[k] EXCEPT !.index.nums = init_args(@)]]

\* The record IncrementalChecker.write dumps.
StatusWritten(incr) ==
    StatusRecord("dict", AllKeys, STATUS_FORMAT, VERSION, incr.globals,
                 WrittenFiles(incr.files))

\* ------------------------------------------------------- package tree list
\* Every segment name of the model, in the order sorted() gives strings.
SortedNames == <<"a", "b", "c", "d", "f", "g", "m", "t">>
Rank(name) == CHOOSE i \in 1..Len(SortedNames) : SortedNames[i] = name
\* The keys of a mapping from the last name to the first.
RECURSIVE SortedKeysDescending(_)
SortedKeysDescending(S) ==
    IF S = {} THEN << >>
    ELSE LET k == CHOOSE x \in S : \A y \in S : Rank(x) >= Rank(y)
         IN <<k>> \o SortedKeysDescending(S \ {k})
\* sorted(d.items()): the keys of a mapping in sorted order.
RECURSIVE SortedKeys(_)
SortedKeys(S) ==
    IF S = {} THEN << >>
    ELSE LET k == CHOOSE x \in S : \A y \in S : Rank(x) <= Rank(y)
         IN <<k>> \o SortedKeys(S \ {k})

\* HtmlReporter._add_branch_to_list: the rows appended for tree_info and its
\* descendants.  A node_id "1.2" is the sequence <<1, 2>>; None is << >>.
RECURSIVE add_branch_to_list(_, _, _)
RECURSIVE ChildRows(_, _, _, _)
ChildRows(tree_info, keys, i, node_id) ==
    IF i > Len(keys) THEN << >>
    ELSE add_branch_to_list(tree_info.children[keys[i]], Append(node_id, i), node_id)
         \o ChildRows(tree_info, keys, i + 1, node_id)
add_branch_to_list(tree_info, node_id, node_pid) ==
    << [node_id |-> node_id, node_pid |-> node_pid,
        is_package |-> tree_info.is_package, is_module |-> ~tree_info.is_package,
        relative_filename |-> tree_info.relative_filename,
        html_filename |-> tree_info.html_filename, nums |-> tree_info.nums] >>
    \o ChildRows(tree_info, SortedKeys(DOMAIN tree_info.children), 1, node_id)

\* HtmlReporter.package_tree_to_list
RECURSIVE RootRows(_, _, _)
RootRows(tree, keys, i) ==
    IF i > Len(keys) THEN << >>
    ELSE add_branch_to_list(tree[keys[i]], <<i>>, << >>) \o RootRows(tree, keys, i + 1)
package_tree_to_list(tree) == RootRows(tree, SortedKeys(DOMAIN tree), 1)

\* ---------------------------------------------------- per-line report data
MaxLines == 2
MaxArcs == 2
\* HtmlDataGeneration.EMPTY
EMPTY == "(empty)"
\* The context names of the data file; "" is the unnamed default context.
ContextNames == {"", "(empty)", "t"}
\* Every name a context can be shown under, in the order sorted() gives.
SortedShown == <<"(empty)", "t">>
\* An optional value: None, or the value given.
Some(v) == [given |-> TRUE, value |-> v]
NoList == [given |-> FALSE, value |-> << >>]
NoLabel == [given |-> FALSE, value |-> ""]
\* c or self.EMPTY
shown(c) == IF c = "" THEN EMPTY ELSE c
\* sorted(c or self.EMPTY for c in contexts_by_lineno[lineno]): one entry per
\* context of the line, under the name it is shown by.
RECURSIVE SortedFrom(_, _)
SortedFrom(i, S) ==
    IF i > Len(SortedShown) THEN << >>
    ELSE [j \in 1..Cardinality({ c \in S : shown(c) = SortedShown[i] }) |-> SortedShown[i]]
         \o SortedFrom(i + 1, S)
sorted_contexts(S) == SortedFrom(1, S)
\* The destinations of missing branch arcs; a negative one leaves the function.
ArcDests == {-1, 2}
ArcLists == UNION { [1..k -> ArcDests] : k \in 0..MaxArcs }
\* What an analysis can say of line n: the line sets, the missing branch arcs
\* and the contexts recorded for the line.
LineAnalyses(n) ==
    [excluded : SUBSET {n}, missing : SUBSET {n}, statements : SUBSET {n},
     missing_branch_arcs : {EmptyMap} \cup { Put(EmptyMap, n, a) : a \in ArcLists },
     contexts_by_lineno : { Put(EmptyMap, n, S) : S \in SUBSET ContextNames }]
\* fr.missing_arc_description(lineno, b, arcs_executed)
missing_arc_description(lineno, b) == <<"arc", lineno, b>>

\* A marking that looks at the missing branches before the missing lines.
category_branches_first(analysis, has_arcs, lineno) ==
    IF lineno \in analysis.excluded THEN "exc"
    ELSE IF has_arcs /\ lineno \in DOMAIN analysis.missing_branch_arcs THEN "par"
    ELSE IF lineno \in analysis.missing THEN "mis"
    ELSE IF lineno \in analysis.statements THEN "run"
    ELSE "None"
\* data_for_file: "Figure out how to mark this line."  None is "None".
category_of(analysis, has_arcs, lineno) ==
    IF lineno \in analysis.excluded THEN "exc"
    ELSE IF lineno \in analysis.missing THEN "mis"
    ELSE IF has_arcs /\ lineno \in DOMAIN analysis.missing_branch_arcs THEN "par"
    ELSE IF lineno \in analysis.statements THEN "run"
    ELSE "None"

\* data_for_file: the short annotation of one missing arc destination.
short_annotation(b) == IF b < 0 THEN "exit" ELSE b

\* data_for_file: contexts, contexts_label and context_list of a line.
context_data(category, show_contexts, line_contexts) ==
    LET contexts == sorted_contexts(line_contexts)
    IN IF category # "None" /\ show_contexts
       THEN [contexts |-> Some(contexts),
             contexts_label |-> Some(IF contexts = <<EMPTY>> THEN EMPTY
                                     ELSE ToString(Len(contexts)) \o " ctx"),
             context_list |-> IF contexts = <<EMPTY>> THEN NoList ELSE Some(contexts)]
       ELSE [contexts |-> NoList, contexts_label |-> NoLabel, context_list |-> NoList]

\* Arcs that are annotated on every line that has missing branch arcs.
annotated_arcs_any_category(analysis, category, lineno) ==
    IF lineno \in DOMAIN analysis.missing_branch_arcs
    THEN analysis.missing_branch_arcs[lineno] ELSE << >>
\* data_for_file: the arcs its loop "for b in missing_branch_arcs[lineno]"
\* annotates, which it runs only in the 'par' branch.
annotated_arcs(analysis, category, lineno) ==
    IF category = "par" THEN analysis.missing_branch_arcs[lineno] ELSE << >>

\* data_for_file, the body of its loop: the record appended for line lineno.
line_data(analysis, config, lineno) ==
    LET category == category_of(analysis, config.has_arcs, lineno)
        arcs == annotated_arcs(analysis, category, lineno)
        ctx == context_data(category, config.show_contexts,
                            IF config.show_contexts
                            THEN analysis.contexts_by_lineno[lineno] ELSE {})
    IN [number |-> lineno,
        category |-> category,
        statement |-> lineno \in analysis.statements,
        contexts |-> ctx.contexts,
        contexts_label |-> ctx.contexts_label,
        context_list |-> ctx.context_list,
        short_annotations |-> [i \in 1..Len(arcs) |-> short_annotation(arcs[i])],
        long_annotations |-> [i \in 1..Len(arcs) |->
                                 missing_arc_description(lineno, arcs[i])]]

\* ------------------------------------------------------------ command line
OK == 0
ERR == 1
FAIL_UNDER == 2
MaxTotal == 3
\* No number given (options.fail_under is None).
NoNumber == [given |-> FALSE, value |-> 0]
\* The fail-under minimums of the model, in percent: 67 is the one a total
\* of two thirds rounds up to, 101 is out of the range of a percentage.
FailUnders == {0, 67, 100, 101}
\* The values of report:precision, the digits after the decimal point.
Precisions == {0, 1}
\* What a report call returns as the total: the pair (covered, statements) of
\* the percentage covered; HtmlReporter.report gives ReportValue(totals).
Totals ==
    { ReportValue(Numbers(1, st, mi, 0, 0)) : st \in 0..MaxTotal, mi \in 0..MaxTotal }
    \cap (Nat \X Nat)
ReportActions == {"report", "html", "xml", "json"}
\* The run-affecting options do_run looks for, in its order.
RunOptionNames == <<"branch", "include", "omit", "pylib", "source", "timid">>
\* The parsed command line.  exit is the SystemExit of parse_args ("None"
\* when it parsed); given holds the run-affecting options that were set.
Options(exit, action, fail_under, append, concurrency, given, module, args) ==
    [exit |-> exit, action |-> action, fail_under |-> fail_under, append |-> append,
     concurrency |-> concurrency, given |-> given, module |-> module, args |-> args]
NoOptions == Options("None", "", NoNumber, FALSE, "None", {}, FALSE, << >>)
CmdOptions ==
    { Options(e, "", NoNumber, FALSE, "None", {}, FALSE, << >>) : e \in {"zero", "nonzero"} }
    \cup { Options("None", a, NoNumber, FALSE, "None", {}, FALSE, << >>) :
             a \in {"", "help", "debug", "erase", "annotate"} }
    \cup { Options("None", "combine", NoNumber, ap, "None", {}, FALSE, << >>) :
             ap \in BOOLEAN }
    \cup { Options("None", a, fu, FALSE, "None", {}, FALSE, << >>) :
             a \in ReportActions, fu \in {NoNumber} \cup { Some(v) : v \in FailUnders } }
    \cup { Options("None", "run", NoNumber, ap, co, gi, mo, <<"prog.py">>) :
             ap \in BOOLEAN, co \in {"None", "multiprocessing"},
             gi \in SUBSET {"branch", "timid"}, mo \in BOOLEAN }
\* The configuration: report:fail_under, report:precision, run:parallel and
\* run:command_line (split into words, when set).
NoCommandLine == [given |-> FALSE, value |-> << >>]
CmdConfigs ==
    [fail_under : FailUnders, precision : Precisions, parallel : BOOLEAN,
     command_line : {NoCommandLine, Some(<< >>), Some(<<"prog.py">>), Some(<<"-m", "mod">>)}]
\* The argument lists do_run can be called with.
RunArgs == {<< >>, <<"prog.py">>}

\* 10 to the power p.
RECURSIVE Pow10(_)
Pow10(p) == IF p = 0 THEN 1 ELSE 10 * Pow10(p - 1)
\* round(total, precision) times 10^precision, total being the percentage
\* 100 * covered / statements (0 for the 0 html's report returns when there
\* are no statements); a tie goes to the even neighbour, as round() does.
rounded(total, precision) ==
    IF total[2] = 0 THEN 0
    ELSE LET n == 100 * total[1] * Pow10(precision)
             q == n \div total[2]
             r == n % total[2]
         IN IF 2 * r > total[2] \/ (2 * r = total[2] /\ q % 2 = 1) THEN q + 1 ELSE q
\* coverage.results.should_fail_under(total, fail_under, precision), called
\* at the end of command_line: a minimum outside 0..100 is refused with an
\* exception (invalid), a minimum of 100 is met by a total of exactly 100
\* only, and otherwise the total rounded to the precision is compared.
should_fail_under(total, fail_under, precision) ==
    IF ~(0 <= fail_under /\ fail_under <= 100)
    THEN [invalid |-> TRUE, fail |-> FALSE]
    ELSE IF fail_under = 100 /\ (total[2] = 0 \/ total[1] # total[2])
    THEN [invalid |-> FALSE, fail |-> TRUE]
    ELSE [invalid |-> FALSE,
          fail |-> rounded(total, precision) < fail_under * Pow10(precision)]

\* A fail-under minimum taken from the configuration whatever the command
\* line says.
fail_under_configured_only(options, config) == config
\* command_line: "Apply the command line fail-under options, and then use the
\* config value": the configuration after set_option.
fail_under_applied(options, config) ==
    IF options.fail_under.given
    THEN [config EXCEPT !.fail_under = options.fail_under.value]
    ELSE config

\* command_line, after the report call: total is None for annotate.
report_status(action, total, config) ==
    IF action \in ReportActions
       /\ should_fail_under(total, config.fail_under, config.precision).fail
    THEN FAIL_UNDER ELSE OK
\* command_line, after the report call: should_fail_under raises.
report_raises(action, total, config) ==
    action \in ReportActions
    /\ should_fail_under(total, config.fail_under, config.precision).invalid

\* do_run: the arguments and the module flag after run:command_line is used.
run_args(options, config, args) ==
    IF args = << >> /\ config.command_line.given
    THEN LET words == config.command_line.value
         IN IF words # << >> /\ Head(words) = "-m"
            THEN [args |-> Tail(words), module |-> TRUE]
            ELSE [args |-> words, module |-> options.module]
    ELSE [args |-> args, module |-> options.module]
\* do_run: the first run-affecting option that is set.
RECURSIVE FirstGiven(_, _)
FirstGiven(i, given) ==
    IF i > Len(RunOptionNames) THEN ""
    ELSE IF RunOptionNames[i] \in given THEN RunOptionNames[i]
    ELSE FirstGiven(i + 1, given)
\* do_run: the message it returns instead of running; "" when it runs.
do_run_message(options, config, args) ==
    IF run_args(options, config, args).args = << >> THEN "Nothing to do."
    ELSE IF options.append /\ config.parallel
    THEN "Can't append to data files in parallel mode."
    ELSE IF options.concurrency = "multiprocessing" /\ FirstGiven(1, options.given) # ""
    THEN "Options affecting multiprocessing must only be specified "
         \o "in a configuration file.\n"
         \o "Remove --" \o FirstGiven(1, options.given) \o " from the command line."
    ELSE ""

\* The parsers whose help can be asked for: "" is the main parser, the others
\* are the subcommands of make_parser.
HelpTopics ==
    {"", "annotate", "combine", "debug", "erase", "help", "html", "json", "report",
     "run", "xml"}
\* print_help of the parser of topic: argparse expands every option's help
\* text with %, and "Skip files with 100% coverage." of --skip-covered, an
\* option of html and report, makes that raise TypeError.
help_raises(topic) == topic \in {"html", "report"}
\* The topic lists given to debug; do_debug passes over a topic it does not know.
DebugTopics ==
    { << >>, <<"sys">>, <<"data">>, <<"config">>, <<"premain">>, <<"nosuch">>,
      <<"data", "sys">>, <<"config", "data">>, <<"data", "data">> }
\* do_debug: the calls it makes on the Coverage object that read or write
\* the data file: a load() for every 'data' among the topics.
RECURSIVE do_debug(_)
do_debug(topics) ==
    IF topics = << >> THEN << >>
    ELSE (IF Head(topics) = "data" THEN <<"load">> ELSE << >>) \o do_debug(Tail(topics))

\* A do_run without the finally: stop and save only when the program returns.
calls_after_run_no_finally(outcome) ==
    IF outcome = "returns" THEN <<"stop", "save">> ELSE << >>
\* do_run, its except and finally: the coverage calls made when runner.run()
\* is over, by how it ended ("returns", "NoSource" or "raises").
calls_after_run(outcome) ==
    <<"stop">> \o (IF outcome = "NoSource" THEN << >> ELSE <<"save">>)

\* ------------------------------------------------------------------- state
VARIABLES
    pc,              \* where the current report run is
    cfg,             \* the configuration of the current run
    morfs,           \* the files analysed in the current run
    measured,        \* per file: the source text and data it is analysed with
    todo,            \* the analyses still to be yielded to html_file
    incr,            \* IncrementalChecker: [globals, files]
    all_files_nums,  \* HtmlReporter.all_files_nums
    file_summaries,  \* HtmlReporter.file_summaries
    package_tree,    \* HtmlReporter.package_tree
    totals,          \* HtmlReporter.totals
    result,          \* how report ended: [err, value]
    disk_pages,      \* output directory: per root name, the page or NoPage
    disk_status,     \* output directory: status.json
    index_rendered,  \* what index.html was rendered from in this run
    tree_rendered,   \* what package_tree.html was rendered from in this run
    log,             \* the output-directory operations of this run, in order
    last_call,       \* the latest can_skip_file call of this run
    last_written,    \* per root name: the summary recorded when its page was last written
    recorded,        \* per file: its state in the run that wrote status.json
    after_crash,     \* a run stopped part-way since the last completed run
    t_pc,            \* package tree on its own: the step reached
    t_paths,         \* the relative names of the files of the index
    t_todo,          \* the files not yet added to the tree
    t_tree,          \* the package tree
    t_built,         \* the tree as it was before merge_single_folders
    t_merged,        \* the tree as merge_single_folders left it
    t_list,          \* what package_tree_to_list returned
    t_entries,       \* the index entries html_file holds for the files added
    l_pc,            \* where data_for_file is
    l_config,        \* data_for_file: [has_arcs, show_contexts]
    l_lineno,        \* data_for_file: the line being classified
    l_analysis,      \* data_for_file: what the analysis says of that line
    l_line,          \* data_for_file: the record appended for that line
    c_pc,            \* where command_line / do_run is
    c_via,           \* what called do_run: "command_line" or "do_run" itself
    c_options,       \* the parsed options
    c_rc,            \* the configuration as the configuration file gives it
    c_config,        \* the configuration of the Coverage object
    c_args,          \* the args of do_run
    c_total,         \* what the report call returned
    c_message,       \* what do_run returned ("" for None)
    c_status,        \* what command_line returned
    c_outcome,       \* how the measured program, or the report, ended
    c_calls          \* the calls on the Coverage object that read, write or measure

run_vars == <<pc, cfg, morfs, measured, todo, incr, all_files_nums, file_summaries,
              package_tree, totals, result, disk_pages, disk_status, index_rendered,
              tree_rendered, log, last_call, last_written, recorded, after_crash>>
tree_vars == <<t_pc, t_paths, t_todo, t_tree, t_built, t_merged, t_list, t_entries>>
line_vars == <<l_pc, l_config, l_lineno, l_analysis, l_line>>
cmd_vars == <<c_pc, c_via, c_options, c_rc, c_config, c_args, c_total, c_message,
              c_status, c_outcome, c_calls>>
side_vars == <<line_vars, cmd_vars>>
vars == <<run_vars, tree_vars, side_vars>>

RootNames == { flat_rootname(relative_filename(f)) : f \in Files }
Unmeasured == [text |-> 0, executed |-> 0]
NoPage == [text |-> 0 - 1, executed |-> 0 - 1]
NotAnalysed == [text |-> 0 - 1, executed |-> 0 - 1]
NoCall == [called |-> FALSE, rootname |-> << >>, this_hash |-> NoHash,
           that_hash |-> NoHash, skip |-> FALSE]
NoResult == [err |-> "", value |-> << >>]
NoIndex == [written |-> FALSE, files |-> << >>, totals |-> NumbersZero]
Event(op, key) == [op |-> op, key |-> key]

\* An html_file that goes on without a page written: the page stays absent.
PageNotWritten(st) == NoPage
\* The page write_html leaves for a file analysed in state st.
PageOf(st) == [text |-> st.text, executed |-> st.executed]
\* file_be_gone
file_be_gone(pages, rootname) == [pages EXCEPT ![rootname] = NoPage]

\* ------------------------------------------------------------- report run
\* The analyses of the files in m, in the order they are yielded.
RECURSIVE FilesInOrder(_, _)
FilesInOrder(m, f) ==
    IF f > Len(RunFiles) THEN << >>
    ELSE (IF f \in m THEN <<f>> ELSE << >>) \o FilesInOrder(m, f + 1)

\* A test that looks at the index entries instead of the analysed files.
NoSummaries(nums_list, summaries) == summaries = << >>
\* report, the test of "No data to report.".
NoDataToReport(nums_list, summaries) == nums_list = << >>

\* Totals that add up the index entries, the files kept in the report.
totals_of_index(nums_list, summaries) ==
    SumSeq([i \in 1..Len(summaries) |-> summaries[i].nums])
\* report: self.totals = sum(self.all_files_nums).
report_totals(nums_list, summaries) == SumSeq(nums_list)

\* An html_file that has the skip_covered test only.
LeftOutCoveredOnly(c, nums) ==
    IF skip_covered(c) /\ nums.n_missing = 0 /\ nums.n_partial_branches = 0
    THEN "covered"
    ELSE "report"

\* html_file, the tests before the cache is asked: "covered" and "empty" leave
\* the file out of the report, "report" goes on to can_skip_file.
LeftOut(c, nums) ==
    IF skip_covered(c) /\ nums.n_missing = 0 /\ nums.n_partial_branches = 0
    THEN "covered"
    ELSE IF skip_empty(c) /\ nums.n_statements = 0
    THEN "empty"
    ELSE "report"

\* HtmlReporter.__init__, then the start of report: incr.read().  c is the configuration, m the files with data to
\* report, st the state the files are in (the state of a file that is not
\* analysed plays no part and is left at Unmeasured).
BeginReport(c, m, st) ==
    /\ pc \in {"idle", "done", "raised", "read_raised", "crashed"}
    /\ \A f \in Files \ m : st[f] = Unmeasured
    /\ cfg' = c
    /\ morfs' = m
    /\ measured' = st
    /\ todo' = FilesInOrder(m, 1)
    /\ all_files_nums' = << >>
    /\ file_summaries' = << >>
    /\ package_tree' = EmptyMap
    /\ totals' = NumbersZero
    /\ index_rendered' = NoIndex
    /\ tree_rendered' = NoIndex
    /\ log' = << >>
    /\ last_call' = NoCall
    /\ after_crash' = (after_crash /\ pc # "done")
    /\ LET r == read(disk_status)
       IN /\ pc' = IF r.err # "" THEN "read_raised" ELSE "read"
          /\ incr' = [globals |-> r.globals, files |-> r.files]
          /\ result' = [err |-> r.err, value |-> << >>]
    /\ UNCHANGED <<disk_pages, disk_status, last_written, recorded>>
    /\ UNCHANGED <<tree_vars, side_vars>>

\* report: incr.check_global_data(self.config, self.pyfile_html_source).
CheckGlobalData ==
    /\ pc = "read"
    /\ pc' = "files"
    /\ incr' = check_global_data(incr, these_globals_of(cfg))
    /\ UNCHANGED <<cfg, morfs, measured, todo, all_files_nums, file_summaries,
                   package_tree, totals, result, disk_pages, disk_status, index_rendered,
                   tree_rendered, log, last_call, last_written, recorded, after_crash>>
    /\ UNCHANGED <<tree_vars, side_vars>>

\* HtmlReporter.html_file for the next analysis.
HtmlFile ==
    /\ pc = "files"
    /\ todo # << >>
    /\ LET f == Head(todo)
           rel == relative_filename(f)
           rootname == flat_rootname(rel)
           nums == analysis_numbers(measured[f])
           this_hash == this_hash_of(measured[f])
           can == can_skip_file(incr.files, this_hash, rootname)
           cached == index_info(incr.files, rootname)
           new_info == [nums |-> nums, html_filename |-> html_filename_of(rootname),
                        relative_filename |-> rel]
           call == [called |-> TRUE, rootname |-> rootname, this_hash |-> this_hash,
                    that_hash |-> file_hash(incr.files, rootname), skip |-> can.skip]
       IN /\ todo' = Tail(todo)
          /\ all_files_nums' = Append(all_files_nums, nums)
          /\ IF LeftOut(cfg, nums) # "report"
             THEN /\ disk_pages' = file_be_gone(disk_pages, rootname)
                  /\ log' = Append(log, Event("remove", rootname))
                  /\ UNCHANGED <<pc, incr, file_summaries, package_tree, result,
                                 last_call, last_written>>
             ELSE IF can.skip /\ cached = NoIndexInfo
             THEN \* index_info() gave {}: add_module_to_tree finds no relative_filename
                  /\ pc' = "raised"
                  /\ result' = [err |-> "KeyError", value |-> << >>]
                  /\ file_summaries' = Append(file_summaries, cached)
                  /\ last_call' = call
                  /\ UNCHANGED <<incr, package_tree, disk_pages, log, last_written>>
             ELSE IF can.skip
             THEN /\ file_summaries' = Append(file_summaries, cached)
                  /\ package_tree' = add_module_to_tree(package_tree, cached)
                  /\ incr' = [incr EXCEPT !.files = can.files]
                  /\ log' = Append(log, Event("skip", rootname))
                  /\ last_call' = call
                  /\ UNCHANGED <<pc, result, disk_pages, last_written>>
             ELSE /\ disk_pages' = [disk_pages EXCEPT ![rootname] = PageOf(measured[f])]
                  /\ file_summaries' = Append(file_summaries, new_info)
                  /\ package_tree' = add_module_to_tree(package_tree, new_info)
                  /\ incr' = [incr EXCEPT
                                !.files = set_index_info(can.files, rootname, new_info)]
                  /\ log' = Append(log, Event("page", rootname))
                  /\ last_call' = call
                  /\ last_written' = [last_written EXCEPT ![rootname] = new_info]
                  /\ UNCHANGED <<pc, result>>
    /\ UNCHANGED <<cfg, morfs, measured, totals, disk_status, index_rendered,
                   tree_rendered, recorded, after_crash>>
    /\ UNCHANGED <<tree_vars, side_vars>>

\* report after the loop: the "No data to report." test, the totals, the sum
\* and merge of the package tree, and package_tree_file.
ReportTree ==
    /\ pc = "files"
    /\ todo = << >>
    /\ IF NoDataToReport(all_files_nums, file_summaries)
       THEN /\ pc' = "raised"
            /\ result' = [err |-> "No data to report.", value |-> << >>]
            /\ UNCHANGED <<totals, package_tree, tree_rendered, log>>
       ELSE /\ pc' = "index"
            /\ totals' = report_totals(all_files_nums, file_summaries)
            /\ package_tree' = merge_single_folders(sum_package_tree(package_tree))
            /\ tree_rendered' = [written |-> TRUE,
                                 files |-> package_tree_to_list(package_tree'),
                                 totals |-> totals']
            /\ log' = Append(log, Event("package_tree.html", << >>))
            /\ UNCHANGED result
    /\ UNCHANGED <<cfg, morfs, measured, todo, incr, all_files_nums, file_summaries,
                   disk_pages, disk_status, index_rendered, last_call, last_written,
                   recorded, after_crash>>
    /\ UNCHANGED <<tree_vars, side_vars>>

\* index_file, the rendering and writing of index.html.
IndexFileWrite ==
    /\ pc = "index"
    /\ pc' = "status"
    /\ index_rendered' = [written |-> TRUE, files |-> file_summaries, totals |-> totals]
    /\ log' = Append(log, Event("index.html", << >>))
    /\ UNCHANGED <<cfg, morfs, measured, todo, incr, all_files_nums, file_summaries,
                   package_tree, totals, result, disk_pages, disk_status, tree_rendered,
                   last_call, last_written, recorded, after_crash>>
    /\ UNCHANGED <<tree_vars, side_vars>>

\* index_file, its last statement: IncrementalChecker.write.  The index
\* dictionaries of the cache are the ones held in file_summaries, so their
\* nums become lists there too.
IncrWrite(observed) ==
    /\ pc = "status"
    /\ pc' = "static"
    /\ disk_status' = StatusWritten(incr)
    /\ incr' = [incr EXCEPT !.files = WrittenFiles(@)]
    /\ file_summaries' = [i \in 1..Len(file_summaries) |->
                             [file_summaries[i] EXCEPT !.nums = init_args(@)]]
    /\ recorded' = IF observed
                   THEN [f \in Files |-> IF f \in morfs THEN measured[f] ELSE NotAnalysed]
                   ELSE recorded
    /\ log' = Append(log, Event("status.json", << >>))
    /\ UNCHANGED <<cfg, morfs, measured, todo, all_files_nums, package_tree, totals,
                   result, disk_pages, index_rendered, tree_rendered, last_call,
                   last_written, after_crash>>
    /\ UNCHANGED <<tree_vars, side_vars>>

\* report, its end: make_local_static_report_files and the return value.
ReportReturn ==
    /\ pc = "static"
    /\ pc' = "done"
    /\ result' = [err |-> "", value |-> ReportValue(totals)]
    /\ log' = Append(log, Event("static", << >>))
    /\ UNCHANGED <<cfg, morfs, measured, todo, incr, all_files_nums, file_summaries,
                   package_tree, totals, disk_pages, disk_status, index_rendered,
                   tree_rendered, last_call, last_written, recorded, after_crash>>
    /\ UNCHANGED <<tree_vars, side_vars>>

\* The process stops part-way through a run: what it held in memory is gone,
\* the output directory stays as it is.
Crash ==
    /\ pc \in {"read", "files", "index", "status", "static"}
    /\ pc' = "crashed"
    /\ after_crash' = TRUE
    /\ cfg' = Config("None", FALSE, "None", FALSE, FALSE)
    /\ morfs' = {}
    /\ measured' = [f \in Files |-> Unmeasured]
    /\ result' = NoResult
    /\ todo' = << >>
    /\ incr' = reset
    /\ all_files_nums' = << >>
    /\ file_summaries' = << >>
    /\ package_tree' = EmptyMap
    /\ totals' = NumbersZero
    /\ index_rendered' = NoIndex
    /\ tree_rendered' = NoIndex
    /\ log' = << >>
    /\ last_call' = NoCall
    /\ UNCHANGED <<disk_pages, disk_status, last_written, recorded>>
    /\ UNCHANGED <<tree_vars, side_vars>>

\* ------------------------------------------------------------ specifications
\* data_for_file is not running.
NoAnalysis == [excluded |-> {}, missing |-> {}, statements |-> {},
               missing_branch_arcs |-> EmptyMap, contexts_by_lineno |-> EmptyMap]
NoLine == [number |-> 0, category |-> "None", statement |-> FALSE,
           contexts |-> NoList, contexts_label |-> NoLabel, context_list |-> NoList,
           short_annotations |-> << >>, long_annotations |-> << >>]
LinesOff ==
    /\ l_pc = "off" /\ l_config = [has_arcs |-> FALSE, show_contexts |-> FALSE]
    /\ l_lineno = 0 /\ l_analysis = NoAnalysis /\ l_line = NoLine
\* No command has been given.
NoConfig == [fail_under |-> 0, precision |-> 0, parallel |-> FALSE,
             command_line |-> NoCommandLine]
CmdIdle ==
    /\ c_via = "" /\ c_options = NoOptions /\ c_rc = NoConfig /\ c_config = NoConfig
    /\ c_args = << >> /\ c_total = <<0, 0>> /\ c_message = "" /\ c_status = NoNumber
    /\ c_outcome = "" /\ c_calls = << >>
CmdOff == c_pc = "off" /\ CmdIdle
SideOff == LinesOff /\ CmdOff

TreeOff ==
    /\ t_pc = "off" /\ t_paths = {} /\ t_todo = {} /\ t_tree = EmptyMap
    /\ t_built = EmptyMap /\ t_merged = EmptyMap /\ t_list = << >>
    /\ t_entries = EmptyMap

RunInit ==
    /\ pc = "idle"
    /\ cfg = Config("None", FALSE, "None", FALSE, FALSE)
    /\ morfs = {}
    /\ measured = [f \in Files |-> Unmeasured]
    /\ todo = << >>
    /\ incr = reset
    /\ all_files_nums = << >>
    /\ file_summaries = << >>
    /\ package_tree = EmptyMap
    /\ totals = NumbersZero
    /\ result = NoResult
    /\ disk_pages = [k \in RootNames |-> NoPage]
    /\ index_rendered = NoIndex
    /\ tree_rendered = NoIndex
    /\ log = << >>
    /\ last_call = NoCall
    /\ last_written = [k \in RootNames |-> NoIndexInfo]
    /\ recorded = [f \in Files |-> NotAnalysed]
    /\ after_crash = FALSE

\* Report runs on an output directory that starts empty.
Init == RunInit /\ disk_status = NoStatusFile /\ TreeOff /\ SideOff

Begin == \E c \in Configs, m \in SUBSET Files, st \in [Files -> FileStates] :
            BeginReport(c, m, st)

Next ==
    Begin \/ CheckGlobalData \/ HtmlFile \/ ReportTree \/ IndexFileWrite \/ IncrWrite(FALSE) \/ ReportReturn

Spec == Init /\ [][Next]_vars

\* The same runs, any of which may stop part-way.
NextCrash == Next \/ Crash
SpecCrash == Init /\ [][NextCrash]_vars

\* The same runs, observed: recorded keeps the state every file had in the run
\* that wrote status.json.
NextObserved ==
    Begin \/ CheckGlobalData \/ HtmlFile \/ ReportTree \/ IndexFileWrite \/ IncrWrite(TRUE) \/ ReportReturn
SpecObserved == Init /\ [][NextObserved]_vars

\* Report runs on an output directory holding a status.json this run of this
\* tool did not write: left by another version of the tool, cut short, or
\* edited.
ForeignFiles ==
    LET k == flat_rootname(relative_filename(1))
        info == [nums |-> init_args(Numbers(1, 1, 1, 0, 0)),
                 html_filename |-> html_filename_of(k),
                 relative_filename |-> relative_filename(1)]
    IN Put(EmptyMap, k, [hash |-> this_hash_of([text |-> 1, executed |-> 0]),
                         index |-> info])
ForeignGlobals == these_globals_of(Config("None", FALSE, "None", FALSE, FALSE))
ForeignStatus ==
    { NoStatusFile,
      StatusRecord("garbled", {}, 0, "", NoHash, EmptyMap),
      StatusRecord("nondict", {}, 0, "", NoHash, EmptyMap),
      StatusRecord("dict", {}, 0, "", NoHash, EmptyMap),
      StatusRecord("dict", AllKeys, STATUS_FORMAT - 1, VERSION, ForeignGlobals, ForeignFiles),
      StatusRecord("dict", AllKeys, STATUS_FORMAT - 1, "older", ForeignGlobals, ForeignFiles),
      StatusRecord("dict", {"format", "globals", "files"}, STATUS_FORMAT, "", ForeignGlobals,
                   ForeignFiles),
      StatusRecord("dict", AllKeys, STATUS_FORMAT, "older", ForeignGlobals, ForeignFiles),
      StatusRecord("dict", {"format", "version", "globals"}, STATUS_FORMAT, VERSION,
                   ForeignGlobals, EmptyMap),
      StatusRecord("dict", {"format", "version", "files"}, STATUS_FORMAT, VERSION, NoHash,
                   ForeignFiles) }
InitStatus == RunInit /\ disk_status \in ForeignStatus /\ TreeOff /\ SideOff
SpecStatus == InitStatus /\ [][Next]_vars

\* ------------------------------------------- the package tree on its own
\* The directory names and file names the relative paths are made of.
DirNames == <<"a", "b", "c", "d">>
FileNames == {"f", "g"}
\* The names of DirNames at the positions in S, in order.
RECURSIVE PickNames(_, _)
PickNames(i, S) ==
    IF i > Len(DirNames) THEN << >>
    ELSE (IF i \in S THEN <<DirNames[i]>> ELSE << >>) \o PickNames(i + 1, S)
\* The directories: up to MaxDepth of the first MaxDepth directory names.
TreeDirs == { PickNames(1, S) : S \in SUBSET (1..MaxDepth) }
TreePaths == { d \o <<n>> : d \in TreeDirs, n \in FileNames }
\* The index entry of the file with relative name p, as html_file makes it.
TreeInfo(p) ==
    [nums |-> Numbers(1, Len(p), IF p[Len(p)] = "f" THEN 1 ELSE 0, 0, 0),
     html_filename |-> html_filename_of(flat_rootname(p)),
     relative_filename |-> p]

\* The subsets of S with at most n elements.
RECURSIVE SubsetsUpTo(_, _)
SubsetsUpTo(S, n) ==
    IF n = 0 THEN {{}}
    ELSE LET smaller == SubsetsUpTo(S, n - 1)
         IN smaller \cup { T \cup {x} : T \in smaller, x \in S }

TreeInit ==
    /\ t_pc = "build"
    /\ t_paths \in SubsetsUpTo(TreePaths, MaxTreeFiles) \ {{}}
    /\ t_todo = t_paths
    /\ t_tree = EmptyMap
    /\ t_built = EmptyMap
    /\ t_merged = EmptyMap
    /\ t_list = << >>
    /\ t_entries = EmptyMap

\* html_file, its call of add_module_to_tree for one more file.
TreeAdd(p) ==
    /\ t_pc = "build"
    /\ p \in t_todo
    /\ t_todo' = t_todo \ {p}
    /\ t_tree' = add_module_to_tree(t_tree, TreeInfo(p))
    /\ t_entries' = Put(t_entries, p, caller_index_info(TreeInfo(p), NodeAt(t_tree', p)))
    /\ UNCHANGED <<t_pc, t_paths, t_built, t_merged, t_list>>
    /\ UNCHANGED <<run_vars, side_vars>>

\* report: self.sum_package_tree()
TreeSum ==
    /\ t_pc = "build"
    /\ t_todo = {}
    /\ t_pc' = "summed"
    /\ t_tree' = sum_package_tree(t_tree)
    /\ t_built' = t_tree'
    /\ UNCHANGED <<t_paths, t_todo, t_merged, t_list, t_entries>>
    /\ UNCHANGED <<run_vars, side_vars>>

\* report: self.merge_single_folders()
TreeMerge ==
    /\ t_pc = "summed"
    /\ t_pc' = "merged"
    /\ t_tree' = merge_single_folders(t_tree)
    /\ t_merged' = t_tree'
    /\ UNCHANGED <<t_paths, t_todo, t_built, t_list, t_entries>>
    /\ UNCHANGED <<run_vars, side_vars>>

\* merge_single_folders called once more on the merged tree.
TreeMergeAgain ==
    /\ t_pc = "merged"
    /\ t_pc' = "merged twice"
    /\ t_tree' = merge_single_folders(t_tree)
    /\ UNCHANGED <<t_paths, t_todo, t_built, t_merged, t_list, t_entries>>
    /\ UNCHANGED <<run_vars, side_vars>>

\* package_tree_file: tree_list = self.package_tree_to_list()
TreeList ==
    /\ t_pc = "merged"
    /\ t_pc' = "listed"
    /\ t_list' = package_tree_to_list(t_tree)
    /\ UNCHANGED <<t_paths, t_todo, t_tree, t_built, t_merged, t_entries>>
    /\ UNCHANGED <<run_vars, side_vars>>

TreeNext ==
    (\E p \in TreePaths : TreeAdd(p)) \/ TreeSum \/ TreeMerge \/ TreeMergeAgain \/ TreeList
InitTree == RunInit /\ disk_status = NoStatusFile /\ TreeInit /\ SideOff
SpecTree == InitTree /\ [][TreeNext]_vars

\* ------------------------------------------------ data_for_file on its own
\* HtmlDataGeneration.__init__ and the start of data_for_file.
LineInit ==
    /\ l_pc = "lines"
    /\ l_config \in [has_arcs : BOOLEAN, show_contexts : BOOLEAN]
    /\ l_lineno = 0
    /\ l_analysis = NoAnalysis
    /\ l_line = NoLine

\* data_for_file, one turn of its loop over the source lines.
DataForLine ==
    /\ l_pc = "lines"
    /\ l_lineno < MaxLines
    /\ \E analysis \in LineAnalyses(l_lineno + 1) :
          /\ l_analysis' = analysis
          /\ l_line' = line_data(analysis, l_config, l_lineno + 1)
    /\ l_lineno' = l_lineno + 1
    /\ UNCHANGED <<l_pc, l_config>>
    /\ UNCHANGED <<run_vars, tree_vars, cmd_vars>>

\* data_for_file: the source has no more lines, file_data is returned.
DataForFileReturn ==
    /\ l_pc = "lines"
    /\ l_pc' = "returned"
    /\ UNCHANGED <<l_config, l_lineno, l_analysis, l_line>>
    /\ UNCHANGED <<run_vars, tree_vars, cmd_vars>>

LinesNext == DataForLine \/ DataForFileReturn
InitLines == RunInit /\ disk_status = NoStatusFile /\ TreeOff /\ LineInit /\ CmdOff
SpecLines == InitLines /\ [][LinesNext]_vars

\* ------------------------------------------------- command_line and do_run
CmdInit == c_pc = "start" /\ CmdIdle

\* command_line for every action but run, from parse_args to its return.
\* outcome says how the report call ends: "returns" with total, or "raises".
\* A --help exit of parse_args and the help action print the help of one
\* parser, and debug goes through its topics: both are inputs of the step.
CommandLine(options, config, total, outcome) ==
    /\ c_pc = "start"
    /\ options.action # "run" \/ options.exit # "None"
    /\ c_via' = "command_line"
    /\ c_options' = options
    /\ c_rc' = config
    /\ c_args' = << >>
    /\ c_message' = ""
    /\ IF options.exit # "None"
       THEN /\ \E topic \in HelpTopics :
                 IF options.exit = "zero" /\ help_raises(topic)
                 THEN c_pc' = "raised" /\ c_status' = NoNumber
                 ELSE /\ c_pc' = "returned"
                      /\ c_status' = Some(IF options.exit = "nonzero" THEN ERR ELSE OK)
            /\ c_calls' = << >>
            /\ c_config' = NoConfig /\ c_total' = <<0, 0>> /\ c_outcome' = ""
       ELSE IF options.action = ""
       THEN /\ c_status' = Some(OK)
            /\ c_pc' = "returned"
            /\ c_calls' = << >>
            /\ c_config' = NoConfig /\ c_total' = <<0, 0>> /\ c_outcome' = ""
       ELSE IF options.action = "help"
       THEN /\ \E topic \in HelpTopics :
                 IF help_raises(topic)
                 THEN c_pc' = "raised" /\ c_status' = NoNumber
                 ELSE c_pc' = "returned" /\ c_status' = Some(OK)
            /\ c_calls' = << >>
            /\ c_config' = NoConfig /\ c_total' = <<0, 0>> /\ c_outcome' = ""
       ELSE IF options.action = "debug"
       THEN /\ c_status' = Some(OK)
            /\ c_pc' = "returned"
            /\ \E topics \in DebugTopics : c_calls' = do_debug(topics)
            /\ c_config' = config
            /\ c_total' = <<0, 0>> /\ c_outcome' = ""
       ELSE IF options.action \in {"erase", "combine"}
       THEN /\ c_status' = Some(OK)
            /\ c_pc' = "returned"
            /\ c_calls' = IF options.action = "erase" THEN <<"erase">>
                          ELSE (IF options.append THEN <<"load">> ELSE << >>)
                               \o <<"combine", "save">>
            /\ c_config' = config
            /\ c_total' = <<0, 0>> /\ c_outcome' = ""
       ELSE /\ c_calls' = <<"load", options.action>>
            /\ c_outcome' = outcome
            /\ IF outcome = "raises"
               THEN /\ c_pc' = "raised"
                    /\ c_status' = NoNumber
                    /\ c_config' = config
                    /\ c_total' = <<0, 0>>
               ELSE /\ c_total' = IF options.action = "annotate" THEN <<0, 0>> ELSE total
                    /\ c_config' = IF options.action = "annotate" THEN config
                                   ELSE fail_under_applied(options, config)
                    /\ IF report_raises(options.action, total, c_config')
                       THEN c_pc' = "raised" /\ c_status' = NoNumber
                       ELSE /\ c_pc' = "returned"
                            /\ c_status' =
                                  Some(report_status(options.action, total, c_config'))
    /\ UNCHANGED <<run_vars, tree_vars, line_vars>>

\* command_line for the run action, up to its call of do_run with
\* [options.pyfile] + options.options.
CommandLineRun(options, config) ==
    /\ c_pc = "start"
    /\ options.action = "run" /\ options.exit = "None"
    /\ c_pc' = "do_run"
    /\ c_via' = "command_line"
    /\ c_options' = options
    /\ c_rc' = config /\ c_config' = config
    /\ c_args' = options.args
    /\ UNCHANGED <<c_total, c_message, c_status, c_outcome, c_calls>>
    /\ UNCHANGED <<run_vars, tree_vars, line_vars>>

\* do_run called on a CoverageScript by a caller of its own, with any args.
DoRunCalled(options, config, args) ==
    /\ c_pc = "start"
    /\ options.action = "run" /\ options.exit = "None"
    /\ c_pc' = "do_run"
    /\ c_via' = "do_run"
    /\ c_options' = options
    /\ c_rc' = config /\ c_config' = config
    /\ c_args' = args
    /\ UNCHANGED <<c_total, c_message, c_status, c_outcome, c_calls>>
    /\ UNCHANGED <<run_vars, tree_vars, line_vars>>

\* do_run up to runner.run(): the checks that return a message (after which
\* command_line returns ERR), runner.prepare(), which may raise, load() with
\* --append, and start().
DoRun(prepared) ==
    /\ c_pc = "do_run"
    /\ LET message == do_run_message(c_options, c_config, c_args)
       IN /\ c_message' = message
          /\ c_options' = [c_options EXCEPT
                             !.module = run_args(c_options, c_config, c_args).module]
          /\ IF message # ""
             THEN /\ c_pc' = "returned"
                  /\ c_status' = IF c_via = "command_line" THEN Some(ERR) ELSE NoNumber
                  /\ c_args' = run_args(c_options, c_config, c_args).args
                  /\ UNCHANGED <<c_calls, c_outcome>>
             ELSE /\ c_args' = run_args(c_options, c_config, c_args).args
                  /\ IF prepared
                     THEN /\ c_pc' = "running"
                          /\ c_calls' = (IF c_options.append THEN <<"load">> ELSE << >>)
                                        \o <<"start">>
                          /\ UNCHANGED <<c_status, c_outcome>>
                     ELSE /\ c_pc' = "raised"
                          /\ c_outcome' = "prepare raises"
                          /\ UNCHANGED <<c_status, c_calls>>
    /\ UNCHANGED <<c_via, c_rc, c_config, c_total>>
    /\ UNCHANGED <<run_vars, tree_vars, line_vars>>

\* do_run from runner.run() to its end: the program returns, raises NoSource
\* or raises something else; then the finally clause.
RunnerRun(outcome) ==
    /\ c_pc = "running"
    /\ c_outcome' = outcome
    /\ c_calls' = c_calls \o calls_after_run(outcome)
    /\ IF outcome = "returns"
       THEN /\ c_pc' = "returned"
            /\ c_status' = IF c_via = "command_line" THEN Some(OK) ELSE NoNumber
       ELSE /\ c_pc' = "raised"
            /\ UNCHANGED c_status
    /\ UNCHANGED <<c_via, c_options, c_rc, c_config, c_args, c_total, c_message>>
    /\ UNCHANGED <<run_vars, tree_vars, line_vars>>

CmdNext ==
    \/ /\ c_pc = "start"
       /\ \E o \in CmdOptions, conf \in CmdConfigs, total \in Totals,
             outcome \in {"returns", "raises"} : CommandLine(o, conf, total, outcome)
    \/ /\ c_pc = "start"
       /\ \E o \in CmdOptions, conf \in CmdConfigs : CommandLineRun(o, conf)
    \/ /\ c_pc = "start"
       /\ \E o \in CmdOptions, conf \in CmdConfigs, args \in RunArgs :
             DoRunCalled(o, conf, args)
    \/ \E prepared \in BOOLEAN : DoRun(prepared)
    \/ \E outcome \in {"returns", "NoSource", "raises"} : RunnerRun(outcome)
InitCmd == RunInit /\ disk_status = NoStatusFile /\ TreeOff /\ LinesOff /\ CmdInit
SpecCmd == InitCmd /\ [][CmdNext]_vars

\* ------------------------------------------------------------------ claims
\* The file whose flat root name is k.
FileOfRoot(k) == CHOOSE f \in Files : flat_rootname(relative_filename(f)) = k
\* The file whose relative name is rel.
FileOfRel(rel) == CHOOSE f \in Files : relative_filename(f) = rel
\* The run has not yet written status.json.
BeforeWrite == pc \in {"files", "index", "status"}
\* The operations of this run on the page of root name k.
Ops(k) == { log[i].op : i \in { j \in 1..Len(log) : log[j].key = k } }

\* C1: can_skip_file returns True exactly when the fingerprint computed for
\* the file in this run equals the one stored for its key, a key with no
\* stored fingerprint never matching; when the call has returned, the stored
\* fingerprint of the key is the computed one.
C1_CanSkipIffStoredFingerprint ==
    (last_call.called /\ pc \in {"files", "index", "status", "raised"}) =>
        /\ last_call.this_hash = this_hash_of(measured[FileOfRoot(last_call.rootname)])
        /\ last_call.skip <=> (last_call.this_hash = last_call.that_hash)
        /\ last_call.that_hash = NoHash => ~last_call.skip
        /\ file_hash(incr.files, last_call.rootname) = last_call.this_hash
C1_Witness ==
    /\ pc = "files"
    /\ last_call.called /\ last_call.skip
    /\ \E i \in 1..Len(log) : log[i].op = "page"

\* C2: when the global fingerprint of this run differs from the one loaded
\* from status.json, the cache is empty before the first file is examined, no
\* file is skipped in the run, the cache holds only entries made in this run,
\* and the stored global fingerprint is the current one, in memory from then
\* on and in status.json once it is written.
C2_GlobalChangeEmptiesCache ==
    /\ (BeforeWrite /\ read(disk_status).globals # these_globals_of(cfg)) =>
          /\ "skip" \notin { log[i].op : i \in 1..Len(log) }
          /\ \A k \in DOMAIN incr.files : "page" \in Ops(k)
          /\ log = << >> => incr.files = EmptyMap
    /\ pc \in {"files", "index", "status", "static", "done"} =>
          incr.globals = these_globals_of(cfg)
    /\ pc \in {"static", "done"} => disk_status.globals = these_globals_of(cfg)
C2_Witness ==
    /\ BeforeWrite
    /\ read(disk_status).globals # these_globals_of(cfg)
    /\ \E k \in DOMAIN disk_status.files :
          /\ disk_status.files[k].hash = this_hash_of(measured[FileOfRoot(k)])
          /\ "page" \in Ops(k)

\* The record in status.json is a JSON object whose format number or tool
\* version is not the current one.
OtherFormatOrVersion(status) ==
    /\ status.kind = "dict"
    /\ \/ "format" \in status.keys /\ status.format # STATUS_FORMAT
       \/ "version" \in status.keys /\ status.version # VERSION
\* status.json is a record this version of the tool could have written.
WellFormedCurrent(status) ==
    /\ status.kind = "dict"
    /\ status.keys = AllKeys
    /\ status.format = STATUS_FORMAT
    /\ status.version = VERSION

\* C3: read never raises: whenever status.json is missing, unparseable or not
\* a record of the expected schema, format and version, read returns and
\* leaves the cache empty.
C3_ReadNeverRaises ==
    /\ pc # "read_raised"
    /\ (pc = "read" /\ ~WellFormedCurrent(disk_status)) => incr = reset

\* C4: a record whose format number or tool version is not the current one is
\* discarded whole: when read is over, files is empty and globals is ''.
C4_OtherVersionDiscarded ==
    (pc \in {"read", "read_raised"} /\ OtherFormatOrVersion(disk_status)) =>
        /\ incr.files = EmptyMap
        /\ incr.globals = NoHash
C4_Witness ==
    /\ pc = "read"
    /\ disk_status.kind = "dict"
    /\ disk_status.format = STATUS_FORMAT
    /\ "version" \in disk_status.keys /\ disk_status.version # VERSION
    /\ DOMAIN disk_status.files # {}
    /\ disk_status.globals # NoHash

\* C5: between two completed runs with the same configuration, the second
\* reading the status.json the first wrote, a file analysed in both is found
\* skippable by can_skip_file exactly when its source text and coverage data
\* are the ones it had in the first.
C5_SkippableIffUnchanged ==
    (/\ BeforeWrite
     /\ last_call.called
     /\ disk_status.kind = "dict"
     /\ disk_status.globals = these_globals_of(cfg)
     /\ recorded[FileOfRoot(last_call.rootname)] # NotAnalysed) =>
        (last_call.skip <=>
            measured[FileOfRoot(last_call.rootname)]
              = recorded[FileOfRoot(last_call.rootname)])

\* C6: when a file's page is skipped, the index list gets an entry for the
\* file, the entry is the summary recorded when the page was last written,
\* index.html is rendered with it, and the package tree gets the file as a
\* leaf carrying that summary.
C6_SkippedFileStillIndexed ==
    /\ (pc = "files" /\ last_call.called /\ last_call.skip) =>
          LET k == last_call.rootname
              e == file_summaries[Len(file_summaries)]
              rel == relative_filename(FileOfRoot(k))
          IN /\ file_summaries # << >>
             /\ e = last_written[k]
             /\ e.relative_filename = rel
             /\ e.html_filename = html_filename_of(k)
             /\ HasNode(package_tree, rel)
             /\ ~NodeAt(package_tree, rel).is_package
             /\ NodeAt(package_tree, rel).nums = e.nums
             /\ NodeAt(package_tree, rel).html_filename = e.html_filename
    /\ pc = "status" =>
          \A k \in RootNames : "skip" \in Ops(k) =>
              \E i \in 1..Len(index_rendered.files) :
                  index_rendered.files[i] = last_written[k]
C6_Witness ==
    /\ pc = "status"
    /\ \E k \in RootNames : "skip" \in Ops(k) /\ last_written[k].nums.n_statements > 0

\* C7: the page of a reported file is written in the run whenever
\* can_skip_file finds it not skippable, and whenever it is skippable but its
\* page is not in the output directory: a file is skipped only with its page
\* on disk.
C7_PageWrittenWhenAbsent ==
    /\ \A k \in RootNames : "skip" \in Ops(k) => disk_pages[k] # NoPage
    /\ (pc = "files" /\ last_call.called /\ ~last_call.skip) =>
          /\ "page" \in Ops(last_call.rootname)
          /\ disk_pages[last_call.rootname]
               = PageOf(measured[FileOfRoot(last_call.rootname)])

\* C8: the first run completed after a run that stopped part-way leaves, for
\* every file of its index, a page on disk made from the source text and
\* coverage data the file has in that run.
C8_SelfHealingAfterCrash ==
    (pc = "done" /\ after_crash) =>
        \A i \in 1..Len(index_rendered.files) :
            LET f == FileOfRel(index_rendered.files[i].relative_filename)
            IN disk_pages[flat_rootname(relative_filename(f))] = PageOf(measured[f])

\* C9: report raises "No data to report." exactly when no file was analysed:
\* the error implies an empty run, a run that got past the test analysed a
\* file, and such a run writes index.html even with every file left out.
C9_NoDataIffNothingAnalysed ==
    /\ result.err = "No data to report." => (pc = "raised" /\ morfs = {})
    /\ pc \in {"index", "status", "static", "done"} => morfs # {}
    /\ (pc = "raised" /\ morfs = {}) => result.err = "No data to report."
    /\ pc \in {"static", "done"} => index_rendered.written
C9_Witness ==
    /\ pc = "done"
    /\ morfs # {}
    /\ index_rendered.written
    /\ index_rendered.files = << >>
    /\ result.err = ""

\* The node has exactly one child, and that child has children.
SingleFolderChild(node) ==
    /\ Cardinality(DOMAIN node.children) = 1
    /\ \E k \in DOMAIN node.children : DOMAIN node.children[k].children # {}
\* No node at or below this one has exactly one child that has children.
RECURSIVE NoSingleFolder(_)
NoSingleFolder(node) ==
    /\ ~SingleFolderChild(node)
    /\ \A k \in DOMAIN node.children : NoSingleFolder(node.children[k])
\* What the claim asks of a node of the unmerged tree: follow the chain of
\* single-child folders down from it, join the segments on the way, take the
\* children of the last folder of the chain, and do the same for each of them.
RECURSIVE ChainCollapsed(_)
ChainCollapsed(node) ==
    IF SingleFolderChild(node)
    THEN LET child == node.children[CHOOSE k \in DOMAIN node.children : TRUE]
         IN ChainCollapsed([node EXCEPT
                              !.children = child.children,
                              !.relative_filename = @ \o child.relative_filename])
    ELSE [node EXCEPT !.children =
             [k \in DOMAIN node.children |-> ChainCollapsed(node.children[k])]]
\* The longest display path of a node at or below this one.
RECURSIVE Longest(_)
Longest(node) ==
    LET below == { Longest(node.children[k]) : k \in DOMAIN node.children }
                   \cup { Len(node.relative_filename) }
    IN CHOOSE n \in below : \A m \in below : m <= n

\* C10: after merge_single_folders no node of the tree, root or nested, has
\* exactly one child that itself has children; every chain of single-child
\* folders has become one node whose display path is the chain's segments
\* joined and whose children are those of the last folder of the chain; and a
\* second merge_single_folders changes nothing.
C10_MergeCollapsesChains ==
    /\ t_pc \in {"merged", "merged twice"} =>
          /\ \A r \in DOMAIN t_tree : NoSingleFolder(t_tree[r])
          /\ DOMAIN t_tree = DOMAIN t_built
          /\ \A r \in DOMAIN t_built : t_merged[r] = ChainCollapsed(t_built[r])
    /\ t_pc = "merged twice" => t_tree = t_merged
C10_Witness ==
    /\ t_pc = "merged twice"
    /\ \E r \in DOMAIN t_tree :
          /\ Longest(t_tree[r]) >= 3
          /\ Cardinality(DOMAIN t_tree[r].children) >= 2

\* The nodes without children at or below node: the display path from the
\* root (the segments of every node on the way, joined), the node itself, and
\* what it hangs under ("root", "package" or "module").
RECURSIVE LeafRowsBelow(_, _, _)
LeafRowsBelow(node, prefix, under) ==
    LET here == prefix \o node.relative_filename
    IN IF DOMAIN node.children = {}
       THEN { [path |-> here, leaf |-> node, under |-> under] }
       ELSE UNION { LeafRowsBelow(node.children[k], here,
                                  IF node.is_package THEN "package" ELSE "module") :
                    k \in DOMAIN node.children }
LeafRows(tree) == UNION { LeafRowsBelow(tree[r], << >>, "root") : r \in DOMAIN tree }
\* The nodes with children at or below node: display path from the root, the
\* segment names of the children, and which of the children are leaves.
RECURSIVE FolderRowsBelow(_, _)
FolderRowsBelow(node, prefix) ==
    LET here == prefix \o node.relative_filename
    IN IF DOMAIN node.children = {} THEN {}
       ELSE { [path |-> here, keys |-> DOMAIN node.children,
               leafkids |-> { k \in DOMAIN node.children :
                                 DOMAIN node.children[k].children = {} }] }
            \cup UNION { FolderRowsBelow(node.children[k], here) :
                         k \in DOMAIN node.children }
FolderRows(tree) == UNION { FolderRowsBelow(tree[r], << >>) : r \in DOMAIN tree }
\* A folder the merge has to keep: two or more children, or an only child
\* that is a file.
KeptFolder(row) ==
    \/ Cardinality(row.keys) >= 2
    \/ (Cardinality(row.keys) = 1 /\ row.leafkids = row.keys)

\* C11: merge_single_folders never joins a folder with an only child that is
\* a file, and never joins a folder that has two or more children: the file
\* leaves after the merge are those before it, each at the same full path,
\* with its own display path and data unchanged, each file with a directory
\* component still below a package node; and every such folder is still a
\* node with the same children at the same full path.
C11_LeavesAndWideFoldersKept ==
    t_pc \in {"merged", "merged twice", "listed"} =>
        /\ LeafRows(t_tree) = LeafRows(t_built)
        /\ \A p \in t_paths :
              \E row \in LeafRows(t_tree) :
                  /\ row.path = p
                  /\ row.leaf.relative_filename = <<p[Len(p)]>>
                  /\ ~row.leaf.is_package
                  /\ Len(p) > 1 => row.under = "package"
        /\ \A row \in FolderRows(t_built) : KeptFolder(row) => row \in FolderRows(t_tree)
C11_Witness ==
    /\ t_pc = "merged"
    /\ t_tree # t_built
    /\ \E row \in FolderRows(t_built) :
          Cardinality(row.keys) = 1 /\ row.leafkids = row.keys /\ Len(row.path) >= 2
    /\ \E row \in FolderRows(t_built) : Cardinality(row.keys) >= 2

\* The counter-wise sum of the Numbers of a set of leaf rows.
RECURSIVE SumRows(_)
SumRows(S) ==
    IF S = {} THEN NumbersZero
    ELSE LET r == CHOOSE x \in S : TRUE
         IN NumbersAdd(r.leaf.nums, SumRows(S \ {r}))
\* Every node with children at or below node has the sum of its leaves.
RECURSIVE SumsOfLeaves(_)
SumsOfLeaves(node) ==
    \/ DOMAIN node.children = {}
    \/ /\ node.nums = SumRows(LeafRowsBelow(node, << >>, "root"))
       /\ \A k \in DOMAIN node.children : SumsOfLeaves(node.children[k])

\* C12: after sum_package_tree, and still after merge_single_folders, the
\* Numbers of every node that has children is the counter-wise sum of the
\* Numbers of all file leaves below it, however deep they are, and every
\* leaf has the Numbers of its own file.
C12_NodeNumbersSumLeaves ==
    t_pc \in {"summed", "merged", "merged twice", "listed"} =>
        /\ \A r \in DOMAIN t_tree : SumsOfLeaves(t_tree[r])
        /\ \A row \in LeafRows(t_tree) :
              row.path \in t_paths /\ row.leaf.nums = TreeInfo(row.path).nums
C12_Witness ==
    /\ t_pc = "merged"
    /\ \E r \in DOMAIN t_tree :
          /\ t_tree[r].nums.n_files = 3
          /\ \E k \in DOMAIN t_tree[r].children : DOMAIN t_tree[r].children[k].children # {}
          /\ \E k \in DOMAIN t_tree[r].children : DOMAIN t_tree[r].children[k].children = {}

\* The package tree of a set of paths, the files added in one fixed order.
RECURSIVE TreeOfPaths(_)
TreeOfPaths(S) ==
    IF S = {} THEN EmptyMap
    ELSE LET p == CHOOSE x \in S : TRUE
         IN add_module_to_tree(TreeOfPaths(S \ {p}), TreeInfo(p))
\* Of every row of a list: which node it is, and its identifiers.
IdRows(list) ==
    [i \in 1..Len(list) |->
        [node_id |-> list[i].node_id, node_pid |-> list[i].node_pid,
         relative_filename |-> list[i].relative_filename]]

\* C13: the list of package_tree_to_list (the order of the nodes, node_id and
\* node_pid of each) is a function of the set of reported paths: in whatever
\* order the files were added, it is the list obtained by adding them in one
\* fixed order.
C13_ListIndependentOfAddOrder ==
    t_pc = "listed" =>
        IdRows(t_list) =
            IdRows(package_tree_to_list(
                      merge_single_folders(sum_package_tree(TreeOfPaths(t_paths)))))
C13_Witness ==
    /\ t_pc = "listed"
    /\ Cardinality(t_paths) = 3
    /\ Cardinality(DOMAIN t_tree) >= 2
    /\ Len(t_list) >= 5

\* The 1-based position of name k among the names of S in sorted order.
Position(k, S) == 1 + Cardinality({ y \in S : Rank(y) < Rank(k) })
\* The rows the claim asks for, for node and everything below it.
RECURSIVE ExpectedBelow(_, _, _)
ExpectedBelow(node, id, pid) ==
    { [node_id |-> id, node_pid |-> pid, is_package |-> node.is_package,
       relative_filename |-> node.relative_filename,
       html_filename |-> node.html_filename, nums |-> node.nums] }
    \cup UNION { ExpectedBelow(node.children[k],
                               Append(id, Position(k, DOMAIN node.children)), id) :
                 k \in DOMAIN node.children }
ExpectedRows(tree) ==
    UNION { ExpectedBelow(tree[r], <<Position(r, DOMAIN tree)>>, << >>) : r \in DOMAIN tree }
\* A row without its is_module field.
RowSansModule(row) ==
    [node_id |-> row.node_id, node_pid |-> row.node_pid, is_package |-> row.is_package,
     relative_filename |-> row.relative_filename,
     html_filename |-> row.html_filename, nums |-> row.nums]
\* Identifier a comes before identifier b in a depth-first pre-order walk.
RECURSIVE WalkedBefore(_, _)
WalkedBefore(a, b) ==
    IF a = << >> THEN b # << >>
    ELSE IF b = << >> THEN FALSE
    ELSE IF Head(a) # Head(b) THEN Head(a) < Head(b)
    ELSE WalkedBefore(Tail(a), Tail(b))

\* C16: in the list of package_tree_to_list every node of the tree appears
\* exactly once; the roots have the ids 1, 2, ... in sorted name order and no
\* parent id; a child has its parent's id followed by its 1-based position
\* among its siblings sorted by segment name, and its parent's id as
\* node_pid; the rows are in depth-first pre-order, a parent before all its
\* descendants; all ids are distinct; is_module is the negation of is_package.
C16_ListIsPreOrderWithPositionalIds ==
    t_pc = "listed" =>
        /\ { RowSansModule(t_list[i]) : i \in 1..Len(t_list) } = ExpectedRows(t_tree)
        /\ Len(t_list) = Cardinality(ExpectedRows(t_tree))
        /\ \A i, j \in 1..Len(t_list) :
              i < j => WalkedBefore(t_list[i].node_id, t_list[j].node_id)
        /\ \A i \in 1..Len(t_list) :
              /\ t_list[i].is_module = ~t_list[i].is_package
              /\ (t_list[i].node_pid = << >>) <=> (Len(t_list[i].node_id) = 1)
              /\ t_list[i].node_pid # << >> =>
                    /\ t_list[i].node_pid
                         = SubSeq(t_list[i].node_id, 1, Len(t_list[i].node_id) - 1)
                    /\ \E j \in 1..(i - 1) : t_list[j].node_id = t_list[i].node_pid
C16_Witness ==
    /\ t_pc = "listed"
    /\ \E i \in 1..Len(t_list) : t_list[i].node_id = <<2>>
    /\ \E i \in 1..Len(t_list) : Len(t_list[i].node_id) = 3
    /\ \E i \in 1..Len(t_list) :
          Len(t_list[i].node_id) = 2 /\ t_list[i].node_id[2] = 2

\* The directories on the way to the file at path p: its proper prefixes.
DirsOf(p) == { SubSeq(p, 1, n) : n \in 1..(Len(p) - 1) }
\* The files added to the tree so far.
Added == t_paths \ t_todo

\* C17: for distinct relative paths none of which is a directory prefix of
\* another, the tree built by add_module_to_tree has exactly one leaf per file
\* added, at the file's path, not a package, carrying the file's Numbers and
\* HTML filename and named by its last segment; every directory on the way
\* to a file is a node with is_package true and an empty HTML filename, and
\* there are no other nodes; a file with no directory component is a root
\* that is itself a leaf.
C17_BuildOneLeafPerFile ==
    t_pc = "build" =>
        /\ { row.path : row \in LeafRows(t_tree) } = Added
        /\ Cardinality(LeafRows(t_tree)) = Cardinality(Added)
        /\ \A row \in LeafRows(t_tree) :
              row.leaf = [nums |-> TreeInfo(row.path).nums,
                          html_filename |-> TreeInfo(row.path).html_filename,
                          relative_filename |-> <<row.path[Len(row.path)]>>,
                          is_package |-> FALSE, children |-> EmptyMap]
        /\ { row.path : row \in FolderRows(t_tree) } = UNION { DirsOf(p) : p \in Added }
        /\ \A p \in Added : \A q \in DirsOf(p) :
              /\ HasNode(t_tree, q)
              /\ NodeAt(t_tree, q).is_package
              /\ NodeAt(t_tree, q).html_filename = << >>
              /\ NodeAt(t_tree, q).relative_filename = <<q[Len(q)]>>
        /\ \A p \in Added :
              Len(p) = 1 => (p[1] \in DOMAIN t_tree /\ DOMAIN t_tree[p[1]].children = {}
                             /\ ~t_tree[p[1]].is_package)
C17_Witness ==
    /\ t_pc = "build"
    /\ t_todo = {}
    /\ Cardinality(t_paths) = 3
    /\ \E p \in t_paths : Len(p) = 1
    /\ \E p, q \in t_paths : p # q /\ Len(p) >= 3 /\ DirsOf(p) \cap DirsOf(q) # {}

\* A line has been classified.
LineDone == l_pc \in {"lines", "returned"} /\ l_lineno >= 1
\* The line is in the missing branch arcs, and branch data was measured.
HasMissingArcs == l_config.has_arcs /\ l_lineno \in DOMAIN l_analysis.missing_branch_arcs

\* C14: data_for_file gives a line one category by the precedence excluded,
\* missing, partial branch, executed, none: an excluded line is 'exc' even
\* when it is missing; a missing line that is not excluded is 'mis' even when
\* it has a missing branch arc; 'par' is given only when branch data was
\* measured; a statement in none of the other sets is 'run'; a line in none
\* of the sets has no category.
C14_CategoryByPrecedence ==
    LineDone =>
        LET n == l_line.number
            exc == n \in l_analysis.excluded
            mis == n \in l_analysis.missing
            stm == n \in l_analysis.statements
        IN /\ n = l_lineno
           /\ l_line.category \in {"exc", "mis", "par", "run", "None"}
           /\ (l_line.category = "exc") <=> exc
           /\ (l_line.category = "mis") <=> (~exc /\ mis)
           /\ (l_line.category = "par") <=> (~exc /\ ~mis /\ HasMissingArcs)
           /\ (l_line.category = "run") <=> (~exc /\ ~mis /\ ~HasMissingArcs /\ stm)
           /\ (l_line.category = "None") <=> (~exc /\ ~mis /\ ~HasMissingArcs /\ ~stm)
           /\ l_line.category = "par" => l_config.has_arcs
C14_Witness ==
    /\ LineDone
    /\ l_lineno \in l_analysis.missing
    /\ HasMissingArcs
    /\ l_line.category = "mis"

\* C18: a line has branch annotations only when its category is 'par': then
\* there is one short label and one long description per missing arc
\* destination of the line, in order, the short label "exit" for a negative
\* destination and the destination line number otherwise; a line of any other
\* category has no short and no long annotations.
C18_AnnotationsOnlyOnPartial ==
    LineDone =>
        /\ l_line.category = "par" =>
              LET arcs == l_analysis.missing_branch_arcs[l_lineno]
              IN /\ Len(l_line.short_annotations) = Len(arcs)
                 /\ Len(l_line.long_annotations) = Len(arcs)
                 /\ \A i \in 1..Len(arcs) :
                       /\ arcs[i] < 0 => l_line.short_annotations[i] = "exit"
                       /\ arcs[i] >= 0 => l_line.short_annotations[i] = arcs[i]
                       /\ l_line.long_annotations[i]
                            = missing_arc_description(l_lineno, arcs[i])
        /\ l_line.category # "par" =>
              (l_line.short_annotations = << >> /\ l_line.long_annotations = << >>)
C18_Witness ==
    /\ LineDone
    /\ l_line.category = "par"
    /\ l_analysis.missing_branch_arcs[l_lineno] = <<-1, 2>>
    /\ Len(l_line.short_annotations) = 2
    /\ Len(l_line.long_annotations) = 2

\* The names the contexts of S are shown under, each once, in sorted order.
RECURSIVE DistinctFrom(_, _)
DistinctFrom(i, S) ==
    IF i > Len(SortedShown) THEN << >>
    ELSE (IF \E c \in S : shown(c) = SortedShown[i] THEN <<SortedShown[i]>> ELSE << >>)
         \o DistinctFrom(i + 1, S)

\* C19: with show_contexts on, a line that has a category gets context data:
\* when the only context recorded for it is the unnamed default, the label is
\* "(empty)" and there is no context list; otherwise the label is the number
\* of contexts followed by " ctx" and the list holds the line's contexts
\* sorted and without duplicates, the unnamed default shown as "(empty)".  A
\* line without a category, and every line when show_contexts is off, gets
\* no context data.
C19_ContextLabels ==
    LineDone =>
        IF l_config.show_contexts /\ l_line.category # "None"
        THEN LET S == l_analysis.contexts_by_lineno[l_lineno]
             IN IF S = {""}
                THEN /\ l_line.contexts_label = Some(EMPTY)
                     /\ l_line.context_list = NoList
                ELSE /\ l_line.contexts_label = Some(ToString(Cardinality(S)) \o " ctx")
                     /\ l_line.context_list = Some(DistinctFrom(1, S))
        ELSE /\ l_line.contexts = NoList
             /\ l_line.contexts_label = NoLabel
             /\ l_line.context_list = NoList

\* The total, a pair (covered, statements), is a percentage below minimum.
TotalBelow(total, minimum) ==
    IF total[2] = 0 THEN minimum > 0 ELSE 100 * total[1] < minimum * total[2]
\* The minimum in force: the --fail-under of the command line when there is
\* one, else the configured one.
MinimumInForce ==
    IF c_options.fail_under.given THEN c_options.fail_under.value ELSE c_rc.fail_under

FailUnderByRoundedTotal ==
    /\ (c_via = "command_line" /\ c_options.exit = "None"
          /\ c_options.action \in ReportActions /\ c_outcome = "returns") =>
          /\ c_config.fail_under = MinimumInForce
          /\ c_pc = "raised" <=> ~(MinimumInForce \in 0..100)
          /\ c_pc = "returned" =>
                (c_status = Some(FAIL_UNDER) <=>
                    \/ rounded(c_total, c_rc.precision)
                          < MinimumInForce * Pow10(c_rc.precision)
                    \/ (MinimumInForce = 100 /\ ~(c_total[2] > 0 /\ c_total[1] = c_total[2])))
                /\ c_status \in {Some(FAIL_UNDER), Some(OK)}
    /\ (c_pc = "returned" /\ c_options.exit = "None" /\ c_options.action = "annotate") =>
          c_status = Some(OK)
\* A total below the minimum that rounds up to it: command_line returns OK.
RoundedUpToMinimum ==
    /\ c_pc = "returned"
    /\ c_options.action = "report"
    /\ c_options.fail_under = Some(67)
    /\ c_total = <<2, 3>>
    /\ c_rc.precision = 0
    /\ c_status = Some(OK)

\* How many of the calls so far are the call named.
Count(name) == Cardinality({ i \in 1..Len(c_calls) : c_calls[i] = name })
\* The position of the only call of that name.
IndexOf(name) == CHOOSE i \in 1..Len(c_calls) : c_calls[i] = name

\* C20: in do_run, start() is called at most once; when do_run is over and
\* start() was called, stop() was called exactly once, after start(), whether
\* the program returned or raised, and save() was called once, after stop(),
\* unless the run raised NoSource, in which case save() was not called; when
\* do_run returned a message, start, stop and save were never called.
C20_StartStopSave ==
    c_options.action = "run" =>
        /\ Count("start") <= 1
        /\ Count("stop") + Count("save") > 0 => Count("start") = 1
        /\ (c_pc \in {"returned", "raised"} /\ Count("start") = 1) =>
              /\ Count("stop") = 1
              /\ IndexOf("start") < IndexOf("stop")
              /\ (c_outcome = "NoSource") <=> (Count("save") = 0)
              /\ c_outcome # "NoSource" =>
                    (Count("save") = 1 /\ IndexOf("stop") < IndexOf("save"))
        /\ c_pc = "running" => (Count("start") = 1 /\ Count("stop") = 0 /\ Count("save") = 0)
        /\ (c_pc = "returned" /\ c_message # "") =>
              (Count("start") = 0 /\ Count("stop") = 0 /\ Count("save") = 0)
C20_Witness ==
    /\ c_pc = "raised"
    /\ c_outcome = "raises"
    /\ c_calls = <<"load", "start", "stop", "save">>


\* ------------------------------------------------ runs on one directory
\* The index entry i of the completed run names a file whose page on disk is
\* the one write_html makes from the file as this run analysed it.
PageIsCurrent(i) ==
    LET f == FileOfRel(index_rendered.files[i].relative_filename)
    IN disk_pages[flat_rootname(relative_filename(f))] = PageOf(measured[f])

\* C21: after any sequence of completed runs on one output directory that
\* nothing else touches, every file listed in the latest index has its page
\* on disk, and the page is the one made from the source text and coverage
\* data the file has in the latest run.
C21_IndexedPagesCurrent ==
    pc = "done" => \A i \in 1..Len(index_rendered.files) : PageIsCurrent(i)


\* The positions of the log holding the operation op.
LogAt(op) == { i \in 1..Len(log) : log[i].op = op }
\* The writes of the run that come before status.json.
ReportWrites == {"page", "remove", "package_tree.html", "index.html"}
\* The keys whose fingerprint in the status file new is not the one of old.
NewFingerprints(old, new) ==
    { k \in DOMAIN new.files :
        k \notin DOMAIN old.files \/ new.files[k].hash # old.files[k].hash }

\* C22: within one run status.json is written only after every file page,
\* package_tree.html and index.html of the run; a step that ends the run
\* with an error ("No data to report." included) leaves the status file as
\* it was; and every fingerprint the write puts or changes in the status
\* file is the fingerprint of a page this run wrote, which is on disk.
C22_StatusWrittenLast ==
    [][ /\ disk_status' # disk_status =>
              /\ pc = "status" /\ pc' = "static"
              /\ todo = << >>
              /\ tree_rendered.written /\ index_rendered.written
              /\ LogAt("package_tree.html") # {} /\ LogAt("index.html") # {}
              /\ \A k \in NewFingerprints(disk_status, disk_status') :
                    /\ "page" \in Ops(k)
                    /\ disk_pages[k] # NoPage
                    /\ this_hash_of(disk_pages[k]) = disk_status'.files[k].hash
        /\ \A i \in LogAt("status.json") :
              \A j \in 1..Len(log') : log'[j].op \in ReportWrites => j < i
        /\ pc' \in {"raised", "read_raised"} => disk_status' = disk_status
      ]_vars
\* A run has raised "No data to report." on a directory whose status file,
\* written by an earlier run, holds a fingerprint.
C22_Witness ==
    /\ pc = "raised"
    /\ result.err = "No data to report."
    /\ disk_status.kind = "dict"
    /\ DOMAIN disk_status.files # {}


\* The leaves of a tree as (full path, Numbers) pairs.
LeafNums(tree) == { [path |-> row.path, nums |-> row.leaf.nums] : row \in LeafRows(tree) }

\* C23: merge_single_folders keeps the set of file leaves and their Numbers:
\* the leaves of the merged tree are those of the tree before the merge and
\* those of the files added; the display paths from a root down to a leaf,
\* joined, spell the relative path of the leaf's file; and at every step of
\* building and merging the index entry of a file added to the tree still
\* holds the file's relative path, its page name and its Numbers.
C23_MergeKeepsLeavesAndEntries ==
    /\ t_pc \in {"merged", "merged twice", "listed"} =>
          /\ LeafNums(t_tree) = LeafNums(t_built)
          /\ LeafNums(t_tree) = { [path |-> p, nums |-> TreeInfo(p).nums] : p \in t_paths }
          /\ Cardinality(LeafRows(t_tree)) = Cardinality(t_paths)
    /\ t_pc # "off" =>
          /\ DOMAIN t_entries = t_paths \ t_todo
          /\ \A p \in DOMAIN t_entries :
                /\ t_entries[p].relative_filename = p
                /\ t_entries[p] = TreeInfo(p)
\* The merge has joined folders above a file three segments deep, in a tree
\* of two files or more.
C23_Witness ==
    /\ t_pc = "merged"
    /\ t_tree # t_built
    /\ Cardinality(t_paths) >= 2
    /\ \E row \in LeafRows(t_tree) :
          /\ Len(row.path) = 3
          /\ row.under = "package"
          /\ t_entries[row.path].relative_filename = row.path
          /\ row.leaf.relative_filename # row.path


\* The counter-wise sum of the Numbers of the files of S as this run
\* analyses them.
RECURSIVE SumAnalysed(_)
SumAnalysed(S) ==
    IF S = {} THEN NumbersZero
    ELSE LET f == CHOOSE x \in S : TRUE
         IN NumbersAdd(analysis_numbers(measured[f]), SumAnalysed(S \ {f}))
\* The files of the run that skip_covered or skip_empty left out.
FilesLeftOut == { f \in morfs : LeftOut(cfg, analysis_numbers(measured[f])) # "report" }

\* C24: the totals rendered in package_tree.html and index.html, and the
\* totals report's return value is made from, are the counter-wise sum of the
\* Numbers of every file analysed in the run, the files left out by
\* skip_covered or skip_empty among them.
C24_TotalsOverAllAnalysed ==
    /\ pc \in {"index", "status", "static", "done"} =>
          /\ totals = SumAnalysed(morfs)
          /\ totals.n_files = Cardinality(morfs)
          /\ tree_rendered.written /\ tree_rendered.totals = SumAnalysed(morfs)
    /\ pc \in {"status", "static", "done"} =>
          index_rendered.written /\ index_rendered.totals = SumAnalysed(morfs)
    /\ pc = "done" => result.value = ReportValue(SumAnalysed(morfs))
\* A run is over that left a file with a statement out of its index and
\* kept another file in.
C24_Witness ==
    /\ pc = "done"
    /\ \E f \in FilesLeftOut : measured[f].text > 0
    /\ Len(index_rendered.files) >= 1
    /\ index_rendered.totals.n_statements = 2
    /\ result.value = <<1, 2>>


\* The file has no missing lines and no partial branches.
FullyCovered(nums) == nums.n_missing = 0 /\ nums.n_partial_branches = 0
\* Every setting of the four skip options, and Numbers of one file with up
\* to MaxStmts statements and one branch.
SkipConfigs ==
    { Config(hsc, sc, hse, se, FALSE) :
        hsc \in {"None", "True", "False"}, sc \in BOOLEAN,
        hse \in {"None", "True", "False"}, se \in BOOLEAN }
SmallNumbers ==
    { Numbers(1, st, mi, 1, pb) : st \in 0..MaxStmts, mi \in 0..MaxStmts, pb \in 0..1 }

\* The tests of html_file in their order: a file is dropped as covered
\* whenever the skip_covered test applies, as empty only when that test does
\* not apply and the skip_empty test does, and goes to the cache otherwise.
LeftOutInOrder ==
    \A c \in SkipConfigs, nums \in SmallNumbers :
       /\ LeftOut(c, nums) = "covered" <=> (skip_covered(c) /\ FullyCovered(nums))
       /\ LeftOut(c, nums) = "empty" <=>
             /\ ~(skip_covered(c) /\ FullyCovered(nums))
             /\ skip_empty(c) /\ nums.n_statements = 0

\* C25: html_file leaves out a file with no missing lines and no partial
\* branches when skip_covered is on, and a file with zero statements when
\* skip_empty is on: the step adds no index entry and no tree node, leaves
\* the file's page absent, and neither asks nor changes the cache; the
\* finished report has no entry, no leaf and no page for the file; and the
\* skip_covered test comes first, the skip_empty test second, the cache last.
C25_LeftOutFrame ==
    [][ /\ (pc = "files" /\ todo # << >>) =>
              LET f == Head(todo)
                  k == flat_rootname(relative_filename(f))
                  nums == analysis_numbers(measured[f])
              IN ((skip_covered(cfg) /\ FullyCovered(nums))
                    \/ (skip_empty(cfg) /\ nums.n_statements = 0)) =>
                     /\ pc' = "files"
                     /\ file_summaries' = file_summaries
                     /\ package_tree' = package_tree
                     /\ disk_pages' = [disk_pages EXCEPT ![k] = NoPage]
                     /\ incr' = incr
                     /\ last_call' = last_call
        /\ pc \in {"index", "status", "static", "done"} =>
              \A f \in morfs :
                 LET rel == relative_filename(f)
                     nums == analysis_numbers(measured[f])
                 IN ((skip_covered(cfg) /\ FullyCovered(nums))
                       \/ (skip_empty(cfg) /\ nums.n_statements = 0)) =>
                        /\ \A i \in 1..Len(file_summaries) :
                              file_summaries[i].relative_filename # rel
                        /\ \A row \in LeafRows(package_tree) : row.path # rel
                        /\ disk_pages[flat_rootname(rel)] = NoPage
        /\ (pc = "files" /\ todo # << >>) => LeftOutInOrder
      ]_vars
\* html_file has just left out, under skip_covered, a file with a statement
\* whose page an earlier run wrote and whose cache entry is still held.
C25_Witness ==
    /\ pc = "files"
    /\ skip_covered(cfg)
    /\ \E f \in morfs :
          LET k == flat_rootname(relative_filename(f))
          IN /\ measured[f].text > 0
             /\ FullyCovered(analysis_numbers(measured[f]))
             /\ "remove" \in Ops(k)
             /\ k \in DOMAIN incr.files
             /\ last_written[k] # NoIndexInfo
             /\ disk_pages[k] = NoPage

====
